---- MODULE Spec2Model ----
(***************************************************************************)
(* Chess Arena: the session-coordination core.                             *)
(*   chess_arena/queue.py               MatchmakingQueue                   *)
(*   chess_arena/connection_manager.py  ConnectionManager                  *)
(*   chess_arena/game_session.py        GameSession, GameSessionManager    *)
(*   chess_arena/server.py              websocket_endpoint                 *)
(* Each component has its own specification over its own variables; the    *)
(* variables of the other components are left unchanged by it.             *)
(***************************************************************************)
EXTENDS Integers, Sequences, FiniteSets, TLC

(***************************************************************************)
(* Bounds of the model.                                                    *)
(***************************************************************************)
\* join_queue invocations made on the queue
MaxCalls == 5
\* connection ids that call the queue
NumConns == 2

\* generate_auth_token calls made on the connection manager
MaxIssues == 4
\* advances of the clock
MaxTicks == 2
\* sweeps counted per game by forfeit_reports
MaxReports == 2

Calls == 1..MaxCalls
Conns == 1..NumConns

(***************************************************************************)
(* MatchmakingQueue state (queue.py).                                      *)
(*   waiting_player  the single slot: NoEntry or a QueueEntry              *)
(*   future          the asyncio.Future of each join_queue call's entry    *)
(*   calls           each join_queue invocation: its connection id, where  *)
(*                   it stands, what it returned and by which path         *)
(*   uuid_ctr        number of uuid4 values drawn so far                   *)
(*   matches         history of the pairings made by _create_match         *)
(***************************************************************************)
VARIABLES waiting_player, future, calls, uuid_ctr, matches

(***************************************************************************)
(* ConnectionManager token state (connection_manager.py).                  *)
(*   auth_tokens  game_id -> {player_id: auth_token}; NoToken where the    *)
(*                dict has no entry                                        *)
(*   token_ctr    number of secrets.token_urlsafe values drawn so far      *)
(*   issued       history of the generate_auth_token calls                 *)
(***************************************************************************)
VARIABLES auth_tokens, token_ctr, issued

(***************************************************************************)
(* GameSessionManager state (game_session.py).                             *)
(*   sessions            game_id -> GameSession (NoSession: no entry)      *)
(*   connection_to_game  connection_id -> game_id (0: no entry)            *)
(*   now                 time.time(), in seconds                           *)
(*   ticks               number of times the clock has advanced            *)
(*   disconnect_info     what the last handle_disconnect returned          *)
(*   forfeits            what the last check_session_forfeits returned     *)
(*   forfeit_reports     per game, how many sweeps have reported a forfeit *)
(*   reconnect_log       per game and player, history kept while the       *)
(*                       manager is driven on its own: when the player's   *)
(*                       last handle_reconnect ran and the disconnect      *)
(*                       timestamp the player had then                     *)
(***************************************************************************)
VARIABLES sessions, connection_to_game, now, ticks, disconnect_info,
          forfeits, forfeit_reports, reconnect_log

(***************************************************************************)
(* Module state of server.py and the ConnectionManager registry.           *)
(*   active_connections   ids of the registered connections                *)
(*   connection_metadata  connection_id -> {game_id, player_id} (NoMeta:   *)
(*                        no entry)                                        *)
(*   peer_alive           whether the client end of the socket is open     *)
(*   handler              each websocket_endpoint invocation: where it      *)
(*                        stands and its locals game_id, player_id         *)
(*   games                game_id -> ChessBoard (NoBoard: no entry)        *)
(*   game_creation_times  game_id -> timestamp (NoTime: no entry)          *)
(*   move_start_times     game_id -> player_id -> timestamp                *)
(*   SERVER_SEARCH_TIME   the configured per-move limit (NoLimit: None)    *)
(*   sent                 the send_json calls of the last step             *)
(*   received             the make_move or get_board message the last step *)
(*                        handled: its connection, its type and whether it *)
(*                        carried the stored token of its pair             *)
(*   game_over_log        per connection, history kept while the clients   *)
(*                        stay connected: how many game_over messages the  *)
(*                        connection has been sent                         *)
(*   game_over_msg        the game_over of the disqualification issued     *)
(*                        last: its game, winner and disqualified player,  *)
(*                        and the move_duration it was issued for          *)
(*   match_found_log      per connection, history kept while the clients   *)
(*                        stay connected: the match_found messages the     *)
(*                        connection has been sent, with their fields      *)
(*   lock                 ConnectionManager.lock is held while a coroutine  *)
(*                        is suspended                                     *)
(*   cm_call              while the ConnectionManager is driven on its     *)
(*                        own: the send_message or send_to_game call made  *)
(*                        last, what it returned and how far it has got    *)
(***************************************************************************)
VARIABLES active_connections, connection_metadata, peer_alive, handler,
          games, game_creation_times, move_start_times, SERVER_SEARCH_TIME,
          sent, received, game_over_log, game_over_msg, match_found_log,
          cm_call, lock

queueVars == <<waiting_player, future, calls, uuid_ctr, matches>>
serverVars == <<active_connections, connection_metadata, peer_alive, handler,
                games, game_creation_times, move_start_times,
                SERVER_SEARCH_TIME, sent, received, game_over_log,
                game_over_msg, match_found_log, cm_call, lock>>
tokenVars == <<auth_tokens, token_ctr, issued>>
sessionVars == <<sessions, connection_to_game, now, ticks, disconnect_info,
                 forfeits, forfeit_reports, reconnect_log>>
\* the histories and the lock of the ConnectionManager, which most steps
\* leave alone
logVars == <<reconnect_log, game_over_log, game_over_msg, match_found_log,
            cm_call, lock>>
vars == <<queueVars, tokenVars, sessionVars, serverVars>>

\* dict with no key
EmptyMap == [x \in {} |-> "white"]

\* Optional[PlayerMatchResult] = None
NoResult ==
    [game_id |-> 0, player_id |-> 0, assigned_color |-> "none",
     first_move |-> 0, player_mappings |-> EmptyMap]

\* self.waiting_player = None
NoEntry == [connection_id |-> 0, future |-> 0]

\* QueueEntry(connection_id, future); the entry object is identified by the
\* join_queue call that created it (the `is` test of line 109)
QueueEntry(c, k) == [connection_id |-> c, future |-> k]

\* states of an asyncio.Future
FutureNone == [state |-> "none", result |-> NoResult]
FuturePending == [state |-> "pending", result |-> NoResult]
FutureCancelled == [state |-> "cancelled", result |-> NoResult]
FutureResult(r) == [state |-> "result", result |-> r]

\* asyncio.Future.done()
future_done(f) == f.state \in {"result", "cancelled"}

\* str(uuid.uuid4()): the i-th value drawn after n earlier ones; uuid4 values
\* are taken to be pairwise different
uuid4(n, i) == n + i

\* random.shuffle(['white', 'black'])
Shuffles == {<<"white", "black">>, <<"black", "white">>}

\* variant of _create_match: the first player always moves first
create_match_first_is_player1(n, colors) ==
    LET game_id == uuid4(n, 1)
        player1_id == uuid4(n, 2)
        player2_id == uuid4(n, 3)
        player_mappings ==
            [p \in {player1_id, player2_id} |->
                IF p = player2_id THEN colors[2] ELSE colors[1]]
    IN  <<[game_id |-> game_id, player_id |-> player1_id,
           assigned_color |-> colors[1], first_move |-> player1_id,
           player_mappings |-> player_mappings],
          [game_id |-> game_id, player_id |-> player2_id,
           assigned_color |-> colors[2], first_move |-> player1_id,
           player_mappings |-> player_mappings]>>

\* variant of _create_match: the second result repeats the first player's id
create_match_same_player(n, colors) ==
    LET game_id == uuid4(n, 1)
        player1_id == uuid4(n, 2)
        player2_id == uuid4(n, 3)
        player_mappings ==
            [p \in {player1_id, player2_id} |->
                IF p = player2_id THEN colors[2] ELSE colors[1]]
        first_move == IF colors[1] = "white" THEN player1_id ELSE player2_id
    IN  <<[game_id |-> game_id, player_id |-> player1_id,
           assigned_color |-> colors[1], first_move |-> first_move,
           player_mappings |-> player_mappings],
          [game_id |-> game_id, player_id |-> player1_id,
           assigned_color |-> colors[2], first_move |-> first_move,
           player_mappings |-> player_mappings]>>

\* _create_match: (player1_result, player2_result)
create_match(n, colors) ==
    LET game_id == uuid4(n, 1)
        player1_id == uuid4(n, 2)
        player2_id == uuid4(n, 3)
        player_mappings ==
            [p \in {player1_id, player2_id} |->
                IF p = player2_id THEN colors[2] ELSE colors[1]]
        first_move == IF colors[1] = "white" THEN player1_id ELSE player2_id
    IN  <<[game_id |-> game_id, player_id |-> player1_id,
           assigned_color |-> colors[1], first_move |-> first_move,
           player_mappings |-> player_mappings],
          [game_id |-> game_id, player_id |-> player2_id,
           assigned_color |-> colors[2], first_move |-> first_move,
           player_mappings |-> player_mappings]>>

\* uuid4 calls made by one _create_match
UuidsPerMatch == 3

\* variant of same_connection: the check of line 83 is missing
same_connection_unchecked(entry, c) == FALSE

\* line 83: self.waiting_player.connection_id == connection_id
same_connection(entry, c) == entry.connection_id = c

\* variant of timeout_cleanup: the slot is left as it is
timeout_cleanup_never(slot, c, k) == slot

\* variant of timeout_cleanup: the slot is cleared whoever holds it
timeout_cleanup_always(slot, c, k) == NoEntry

\* lines 108-110: if self.waiting_player is queue_entry: self.waiting_player = None
timeout_cleanup(slot, c, k) ==
    IF slot = QueueEntry(c, k) THEN NoEntry ELSE slot

\* a join_queue invocation that has not been made yet; conn is the
\* connection_id argument while the invocation runs (0 before and after)
IdleCall == [conn |-> 0, pc |-> "idle", ret |-> NoResult, how |-> "-"]

\* invocations are numbered in the order they are made
NextCall(k) == calls[k].pc = "idle" /\ \A j \in 1..(k - 1) : calls[j].pc # "idle"

Returned(cs, k, r, how) ==
    [cs EXCEPT ![k].pc = "done", ![k].ret = r, ![k].how = how, ![k].conn = 0]

\* the invocation join_queue(c) starts as call k
Started(k, c) == [calls EXCEPT ![k].conn = c]

(***************************************************************************)
(* join_queue, lines 75-100: the section under self.lock.  The lock is     *)
(* never held across an await, so the section is one step.                 *)
(***************************************************************************)
\* lines 76-80 and 96-100: become the waiting player
JoinAsWaiter(k, c) ==
    /\ NextCall(k)
    /\ \/ waiting_player = NoEntry
       \/ /\ waiting_player # NoEntry
          /\ future_done(future[waiting_player.future])
    /\ waiting_player' = QueueEntry(c, k)
    /\ future' = [future EXCEPT ![k] = FuturePending]
    /\ calls' = [Started(k, c) EXCEPT ![k].pc = "waiting"]
    /\ UNCHANGED <<uuid_ctr, matches>>

\* variant of JoinSelf: the duplicate join evicts the waiting entry
JoinSelfEvicts(k, c) ==
    /\ NextCall(k)
    /\ waiting_player # NoEntry
    /\ ~future_done(future[waiting_player.future])
    /\ same_connection(waiting_player, c)
    /\ calls' = Returned(Started(k, c), k, NoResult, "self")
    /\ future' = [future EXCEPT ![waiting_player.future] = FutureCancelled]
    /\ waiting_player' = NoEntry
    /\ UNCHANGED <<uuid_ctr, matches>>

\* lines 81-85: the same connection is already waiting
JoinSelf(k, c) ==
    /\ NextCall(k)
    /\ waiting_player # NoEntry
    /\ ~future_done(future[waiting_player.future])
    /\ same_connection(waiting_player, c)
    /\ calls' = Returned(Started(k, c), k, NoResult, "self")
    /\ UNCHANGED <<waiting_player, future, uuid_ctr, matches>>

\* lines 87-95: second player, create the match and notify the waiter
JoinAsSecond(k, c) ==
    /\ NextCall(k)
    /\ waiting_player # NoEntry
    /\ ~future_done(future[waiting_player.future])
    /\ ~same_connection(waiting_player, c)
    /\ \E colors \in Shuffles :
          LET results == create_match(uuid_ctr, colors)
              w == waiting_player.future
          IN  /\ future' = [future EXCEPT ![w] = FutureResult(results[1])]
              /\ calls' = Returned(Started(k, c), k, results[2], "joiner")
              /\ matches' = Append(matches,
                     [waiter |-> w, joiner |-> k,
                      waiter_conn |-> waiting_player.connection_id,
                      joiner_conn |-> c,
                      player1_result |-> results[1],
                      player2_result |-> results[2]])
    /\ waiting_player' = NoEntry
    /\ uuid_ctr' = uuid_ctr + UuidsPerMatch

(***************************************************************************)
(* join_queue, lines 103-114: asyncio.wait_for(queue_entry.future, timeout)*)
(***************************************************************************)
\* lines 105-106: the future was fulfilled, return its result
WaitResult(k) ==
    /\ calls[k].pc = "waiting"
    /\ future[k].state = "result"
    /\ calls' = Returned(calls, k, future[k].result, "matched")
    /\ UNCHANGED <<waiting_player, future, uuid_ctr, matches>>

\* a wait_for whose timeout leaves the awaited future pending
WaitTimeoutShielded(k) ==
    /\ calls[k].pc = "waiting"
    /\ future[k].state = "pending"
    /\ calls' = [calls EXCEPT ![k].pc = "timedout"]
    /\ UNCHANGED <<waiting_player, future, uuid_ctr, matches>>

\* wait_for's timeout elapses first: it cancels the future and raises
\* TimeoutError into join_queue (line 107)
WaitTimeout(k) ==
    /\ calls[k].pc = "waiting"
    /\ future[k].state = "pending"
    /\ future' = [future EXCEPT ![k] = FutureCancelled]
    /\ calls' = [calls EXCEPT ![k].pc = "timedout"]
    /\ UNCHANGED <<waiting_player, uuid_ctr, matches>>

\* lines 107-111: except asyncio.TimeoutError, under self.lock
TimeoutCleanup(k) ==
    /\ calls[k].pc = "timedout"
    /\ waiting_player' = timeout_cleanup(waiting_player, calls[k].conn, k)
    /\ calls' = Returned(calls, k, NoResult, "timeout")
    /\ UNCHANGED <<future, uuid_ctr, matches>>

\* lines 112-114: the task running join_queue is cancelled while it waits;
\* the cancellation cancels the awaited future, join_queue returns None
\* and does not touch the slot
CancelledWhileWaiting(k) ==
    /\ calls[k].pc = "waiting"
    /\ future[k].state = "pending"
    /\ future' = [future EXCEPT ![k] = FutureCancelled]
    /\ calls' = Returned(calls, k, NoResult, "cancelled")
    /\ UNCHANGED <<waiting_player, uuid_ctr, matches>>

\* lines 112-114 after remove_from_queue cancelled the future: awaiting a
\* cancelled future raises CancelledError, join_queue returns None
WaitWithdrawn(k) ==
    /\ calls[k].pc = "waiting"
    /\ future[k].state = "cancelled"
    /\ calls' = Returned(calls, k, NoResult, "withdrawn")
    /\ UNCHANGED <<waiting_player, future, uuid_ctr, matches>>

(***************************************************************************)
(* remove_from_queue, lines 127-134.                                       *)
(***************************************************************************)
\* a remove_from_queue that does not look at whose entry the slot holds
remove_from_queue_any(c) ==
    /\ future' =
          IF waiting_player # NoEntry /\ ~future_done(future[waiting_player.future])
          THEN [future EXCEPT ![waiting_player.future] = FutureCancelled]
          ELSE future
    /\ waiting_player' = NoEntry

\* lines 128-134: what remove_from_queue(connection_id) returns
remove_from_queue_returns(c) ==
    waiting_player # NoEntry /\ waiting_player.connection_id = c

remove_from_queue(c) ==
    IF waiting_player # NoEntry /\ waiting_player.connection_id = c
    THEN /\ future' =
              IF ~future_done(future[waiting_player.future])
              THEN [future EXCEPT ![waiting_player.future] = FutureCancelled]
              ELSE future
         /\ waiting_player' = NoEntry
    ELSE UNCHANGED <<waiting_player, future>>

RemoveFromQueue(c) ==
    /\ remove_from_queue(c)
    /\ UNCHANGED <<calls, uuid_ctr, matches>>

\* join_queue(connection_id = c) made as invocation k: lines 75-100
JoinQueue(k, c) == JoinAsWaiter(k, c) \/ JoinSelf(k, c) \/ JoinAsSecond(k, c)

(***************************************************************************)
(* ConnectionManager: auth tokens (connection_manager.py, lines 145-176).  *)
(***************************************************************************)
\* game ids and player ids as _create_match generates them: the m-th match
\* has game id 3(m-1)+1 and player ids 3(m-1)+2, 3(m-1)+3
GameIds == {uuid4(UuidsPerMatch * (m - 1), 1) : m \in 1..2}
PlayersOf(g) == {g + 1, g + 2}
PlayerIds == UNION {PlayersOf(g) : g \in GameIds}

\* dict.get(...) found nothing: None
NoToken == 0

\* secrets.token_urlsafe(32): the value drawn after n earlier ones; the
\* values are taken to be pairwise different (256 random bits)
token_urlsafe(n) == n + 1

\* auth token strings a client may present: every value generate_auth_token
\* can have returned and one it never returns
TokenValues == 1..(MaxIssues + 2)

\* variant of store_token: an existing token is kept (setdefault)
store_token_keep_first(tokens, g, p, t) ==
    IF tokens[g][p] # NoToken THEN tokens ELSE [tokens EXCEPT ![g][p] = t]

\* lines 157-159: self.auth_tokens[game_id][player_id] = auth_token
store_token(tokens, g, p, t) == [tokens EXCEPT ![g][p] = t]

\* generate_auth_token(game_id, player_id), lines 145-160
generate_auth_token(g, p) ==
    LET auth_token == token_urlsafe(token_ctr)
    IN  /\ auth_tokens' = store_token(auth_tokens, g, p, auth_token)
        /\ token_ctr' = token_ctr + 1
        /\ issued' = Append(issued,
               [game_id |-> g, player_id |-> p, auth_token |-> auth_token])

\* variant of validate_auth_token: the token is looked up by player only
validate_auth_token_any_game(g, p, t) ==
    \E g2 \in GameIds : auth_tokens[g2][p] = t

\* variant of validate_auth_token: every token is accepted
validate_auth_token_any_token(g, p, t) == TRUE

\* validate_auth_token(game_id, player_id, auth_token), lines 162-176:
\* self.auth_tokens.get(game_id, {}).get(player_id) == auth_token
validate_auth_token(g, p, t) == auth_tokens[g][p] = t

InitTokens ==
    /\ auth_tokens = [g \in GameIds |-> [p \in PlayerIds |-> NoToken]]
    /\ token_ctr = 0
    /\ issued = <<>>

\* generate_auth_token called for any game and any player
GenerateAuthToken(g, p) ==
    /\ token_ctr < MaxIssues
    /\ generate_auth_token(g, p)

NextTokens ==
    \E g \in GameIds, p \in PlayerIds :
        GenerateAuthToken(g, p) /\ UNCHANGED <<queueVars, sessionVars, serverVars>>

(***************************************************************************)
(* GameSession and GameSessionManager (game_session.py).                   *)
(* A Python dict keeps insertion order; it is a sequence of <<key, value>> *)
(* pairs here.                                                             *)
(***************************************************************************)
DictKeys(d) == {d[i][1] : i \in DOMAIN d}
DictHas(d, k) == k \in DictKeys(d)
\* d.get(k): 0 stands for None
DictGet(d, k) ==
    IF DictHas(d, k) THEN d[CHOOSE i \in DOMAIN d : d[i][1] = k][2] ELSE 0
\* d[k] = v
DictSet(d, k, v) ==
    IF DictHas(d, k)
    THEN [i \in DOMAIN d |-> IF d[i][1] = k THEN <<k, v>> ELSE d[i]]
    ELSE Append(d, <<k, v>>)
\* d.pop(k, None)
DictPop(d, k) == SelectSeq(d, LAMBDA e : e[1] # k)
\* list(d.keys())
DictKeyList(d) == [i \in DOMAIN d |-> d[i][1]]
\* set(d.values())
DictValues(d) == {d[i][2] : i \in DOMAIN d}

\* GameSession.forfeit_timeout, line 27
forfeit_timeout == 60

\* connection ids seen by the session manager
SessConns == 1..3

\* GameSession.__init__, lines 23-29
GameSession(player_connections) ==
    [exists |-> TRUE,
     player_connections |-> player_connections,
     disconnected_players |-> <<>>,
     is_cancelled |-> FALSE,
     winner |-> 0]

\* self.sessions has no entry for the game
NoSession ==
    [exists |-> FALSE,
     player_connections |-> <<>>,
     disconnected_players |-> <<>>,
     is_cancelled |-> FALSE,
     winner |-> 0]

\* a mark_disconnected that records the time of every call
mark_disconnected_resets(s, player_id, t) ==
    [s EXCEPT !.disconnected_players = DictSet(@, player_id, t)]

\* mark_disconnected, lines 31-39
mark_disconnected(s, player_id, t) ==
    IF ~DictHas(s.disconnected_players, player_id)
    THEN [s EXCEPT !.disconnected_players = Append(@, <<player_id, t>>)]
    ELSE s

\* a reconnection that leaves the disconnect timestamp in place
mark_reconnected_keeps_timestamp(s, player_id) == s

\* mark_reconnected, lines 41-48
mark_reconnected(s, player_id) ==
    [s EXCEPT !.disconnected_players = DictPop(@, player_id)]

\* what check_forfeit returns: None, a winner's player id, or "cancelled"
NoOutcome == [kind |-> "none", winner |-> 0]
ForfeitTo(w) == [kind |-> "forfeit", winner |-> w]
Cancelled == [kind |-> "cancelled", winner |-> 0]

\* line 62: the players of the session other than player_id, in dict order
other_players(s, player_id) ==
    SelectSeq(DictKeyList(s.player_connections), LAMBDA q : q # player_id)

\* line 60: current_time - disconnect_time >= self.forfeit_timeout
timed_out(t, disconnect_time) == t - disconnect_time >= forfeit_timeout

\* check_forfeit, lines 50-72, at time t: <<result, session afterwards>>
check_forfeit(s, t) ==
    LET dp == s.disconnected_players
        hits == {i \in DOMAIN dp :
                    /\ timed_out(t, dp[i][2])
                    /\ other_players(s, dp[i][1]) # <<>>}
    IN  IF hits # {}
        THEN LET i == CHOOSE h \in hits : \A h2 \in hits : h <= h2
                 w == other_players(s, dp[i][1])[1]
             IN  <<ForfeitTo(w), [s EXCEPT !.winner = w]>>
        ELSE IF Len(dp) = Len(s.player_connections)
        THEN <<Cancelled, [s EXCEPT !.is_cancelled = TRUE]>>
        ELSE <<NoOutcome, s>>

\* a dict of timestamps has no entry
NoTime == 0 - 1

\* handle_disconnect returned None
NoInfo ==
    [status |-> "none", game_id |-> 0, disconnected_player_id |-> 0,
     winner |-> 0]

\* lines 133-134: self.connection_to_game[connection_id] = game_id for each
\* connection of player_connections
track_connections(c2g, g, pc) ==
    [c \in DOMAIN c2g |-> IF c \in DictValues(pc) THEN g ELSE c2g[c]]

\* create_session(game_id, player_connections), lines 115-138
create_session(g, pc) ==
    /\ sessions' = [sessions EXCEPT ![g] = GameSession(pc)]
    /\ connection_to_game' = track_connections(connection_to_game, g, pc)

\* a search that takes the first player of the session when none is bound
\* to connection_id
player_of_connection_any(s, c) ==
    LET pc == s.player_connections
        is == {i \in DOMAIN pc : pc[i][2] = c}
    IN  IF pc = <<>> THEN 0
        ELSE IF is = {} THEN pc[1][1]
        ELSE pc[CHOOSE i \in is : \A j \in is : i <= j][1]

\* lines 163-167: the first player of the session bound to connection_id
player_of_connection(s, c) ==
    LET pc == s.player_connections
        is == {i \in DOMAIN pc : pc[i][2] = c}
    IN  IF is = {} THEN 0
        ELSE pc[CHOOSE i \in is : \A j \in is : i <= j][1]

\* handle_disconnect(connection_id), lines 140-194:
\* <<the dict it returns, self.sessions afterwards>>
disconnect_result(ss, cg, c, t) ==
    LET g == cg[c]
    IN  IF g = 0 \/ ~ss[g].exists \/ player_of_connection(ss[g], c) = 0
        THEN <<NoInfo, ss>>
        ELSE LET player_id == player_of_connection(ss[g], c)
                 chk == check_forfeit(mark_disconnected(ss[g], player_id, t), t)
             IN  <<[status |-> IF chk[1].kind = "none" THEN "disconnected"
                               ELSE chk[1].kind,
                    game_id |-> g,
                    disconnected_player_id |-> player_id,
                    winner |-> chk[1].winner],
                   [ss EXCEPT ![g] = chk[2]]>>

\* handle_disconnect as the manager runs it: on its own sessions and reverse
\* index, at the present time
disconnect_outcome(c) == disconnect_result(sessions, connection_to_game, c, now)

handle_disconnect(c) ==
    /\ disconnect_info' = disconnect_outcome(c)[1]
    /\ sessions' = disconnect_outcome(c)[2]

\* a handle_reconnect that leaves the reverse mapping of the player's
\* previous connection in place
handle_reconnect_keeps_old(c, g, p) ==
    IF ~sessions[g].exists
    THEN UNCHANGED <<sessions, connection_to_game>>
    ELSE /\ sessions' =
               [sessions EXCEPT ![g] =
                   mark_reconnected(
                       [@ EXCEPT !.player_connections = DictSet(@, p, c)], p)]
         /\ connection_to_game' = [connection_to_game EXCEPT ![c] = g]

\* a handle_reconnect that drops the reverse mapping of the player's
\* previous connection after it has written the new one
handle_reconnect_unmaps_last(c, g, p) ==
    IF ~sessions[g].exists
    THEN UNCHANGED <<sessions, connection_to_game>>
    ELSE LET old_connection == DictGet(sessions[g].player_connections, p)
         IN  /\ sessions' =
                   [sessions EXCEPT ![g] =
                       mark_reconnected(
                           [@ EXCEPT !.player_connections = DictSet(@, p, c)], p)]
             /\ connection_to_game' =
                   [x \in DOMAIN connection_to_game |->
                       IF x = old_connection THEN 0
                       ELSE IF x = c THEN g
                       ELSE connection_to_game[x]]

\* handle_reconnect(connection_id, game_id, player_id), lines 196-225;
\* its return value is sessions[g].exists
handle_reconnect(c, g, p) ==
    IF ~sessions[g].exists
    THEN UNCHANGED <<sessions, connection_to_game>>
    ELSE LET old_connection == DictGet(sessions[g].player_connections, p)
         IN  /\ sessions' =
                   [sessions EXCEPT ![g] =
                       mark_reconnected(
                           [@ EXCEPT !.player_connections = DictSet(@, p, c)], p)]
             /\ connection_to_game' =
                   [x \in DOMAIN connection_to_game |->
                       IF x = c THEN g
                       ELSE IF x = old_connection THEN 0
                       ELSE connection_to_game[x]]

\* check_session_forfeits, lines 227-246: one event per session with a result
sweep_events(t) ==
    {[game_id |-> g, status |-> check_forfeit(sessions[g], t)[1].kind,
      winner |-> check_forfeit(sessions[g], t)[1].winner] :
        g \in {g \in DOMAIN sessions :
                  /\ sessions[g].exists
                  /\ check_forfeit(sessions[g], t)[1].kind # "none"}}

check_session_forfeits ==
    /\ forfeits' = sweep_events(now)
    /\ sessions' =
          [g \in DOMAIN sessions |->
              IF sessions[g].exists THEN check_forfeit(sessions[g], now)[2]
              ELSE sessions[g]]

\* remove_session(game_id), lines 259-276, run when self.sessions is ss
remove_session_from(ss, g) ==
    /\ sessions' = [ss EXCEPT ![g] = NoSession]
    /\ connection_to_game' =
          [c \in DOMAIN connection_to_game |->
              IF ss[g].exists /\ c \in DictValues(ss[g].player_connections)
              THEN 0 ELSE connection_to_game[c]]

remove_session(g) == remove_session_from(sessions, g)

(***************************************************************************)
(* The session manager on its own, driven as test_game_session.py drives   *)
(* it, with the clock advancing between the calls.                         *)
(***************************************************************************)
\* the clock advances by one second or by one second less than the grace
\* period
TickSizes == {1, forfeit_timeout - 1}

\* the step is no handle_disconnect and no check_session_forfeits: nothing
\* is returned by either
NoReturn == disconnect_info' = NoInfo /\ forfeits' = {}

Tick(d) ==
    /\ ticks < MaxTicks
    /\ now' = now + d
    /\ ticks' = ticks + 1
    /\ NoReturn
    /\ UNCHANGED <<sessions, connection_to_game, forfeit_reports>>

\* the games whose sessions the manager is driven with on its own
SessGames == {1}

\* the player_connections a session of game g is created with: its two
\* players on two connections, or one of its players alone
SessionInputs(g) ==
    {<<<<g + 1, 1>>, <<g + 2, 2>>>>, <<<<g + 1, 1>>>>, <<<<g + 2, 2>>>>}

CreateSession(g, pc) ==
    /\ ~sessions[g].exists
    /\ create_session(g, pc)
    /\ NoReturn
    /\ UNCHANGED <<now, ticks, forfeit_reports>>

HandleDisconnect(c) ==
    /\ handle_disconnect(c)
    /\ forfeits' = {}
    /\ UNCHANGED <<connection_to_game, now, ticks, forfeit_reports>>

HandleReconnect(c, g, p) ==
    /\ handle_reconnect(c, g, p)
    /\ NoReturn
    /\ UNCHANGED <<now, ticks, forfeit_reports>>

\* a forfeit event for game g is among the events
ReportsForfeit(events, g) ==
    \E e \in events : e.game_id = g /\ e.status = "forfeit"

CheckSessionForfeits ==
    /\ check_session_forfeits
    /\ forfeit_reports' =
          [g \in DOMAIN forfeit_reports |->
              IF ReportsForfeit(forfeits', g) /\ forfeit_reports[g] < MaxReports
              THEN forfeit_reports[g] + 1
              ELSE forfeit_reports[g]]
    /\ disconnect_info' = NoInfo
    /\ UNCHANGED <<connection_to_game, now, ticks>>

RemoveSession(g) ==
    /\ sessions[g].exists
    /\ remove_session(g)
    /\ forfeit_reports' = [forfeit_reports EXCEPT ![g] = 0]
    /\ NoReturn
    /\ UNCHANGED <<now, ticks>>

\* no handle_reconnect of the player is on record
NoReconnect == [disconnected_at |-> NoTime, reconnected_at |-> NoTime]

\* handle_reconnect(_, g, p) is put on record with the disconnect timestamp
\* it finds for p, if it finds one
LogReconnect(g, p) ==
    reconnect_log' =
        IF sessions[g].exists /\ DictHas(sessions[g].disconnected_players, p)
        THEN [reconnect_log EXCEPT ![g][p] =
                 [disconnected_at |-> DictGet(sessions[g].disconnected_players, p),
                  reconnected_at |-> now]]
        ELSE reconnect_log

\* the record of a player ends when handle_disconnect marks the player
\* disconnected again
LogDisconnect(c) ==
    reconnect_log' =
        IF disconnect_outcome(c)[1] = NoInfo THEN reconnect_log
        ELSE [reconnect_log EXCEPT
                 ![disconnect_outcome(c)[1].game_id]
                  [disconnect_outcome(c)[1].disconnected_player_id] = NoReconnect]

\* the records of a game end with its session and start anew with it
LogSession(g) ==
    reconnect_log' = [reconnect_log EXCEPT ![g] = [p \in PlayerIds |-> NoReconnect]]

InitSessions ==
    /\ reconnect_log = [g \in GameIds |-> [p \in PlayerIds |-> NoReconnect]]
    /\ sessions = [g \in GameIds |-> NoSession]
    /\ connection_to_game = [c \in SessConns |-> 0]
    /\ now = 0
    /\ ticks = 0
    /\ disconnect_info = NoInfo
    /\ forfeits = {}
    /\ forfeit_reports = [g \in GameIds |-> 0]

NextSessions ==
    \/ \E g \in SessGames : \E pc \in SessionInputs(g) :
          CreateSession(g, pc) /\ LogSession(g)
              /\ UNCHANGED <<queueVars, tokenVars, serverVars>>
    \/ \E c \in SessConns :
          HandleDisconnect(c) /\ LogDisconnect(c)
              /\ UNCHANGED <<queueVars, tokenVars, serverVars>>
    \/ \E c \in SessConns, g \in SessGames : \E p \in PlayersOf(g) :
          HandleReconnect(c, g, p) /\ LogReconnect(g, p)
              /\ UNCHANGED <<queueVars, tokenVars, serverVars>>
    \/ CheckSessionForfeits
          /\ UNCHANGED <<queueVars, tokenVars, serverVars, reconnect_log>>
    \/ \E g \in SessGames :
          RemoveSession(g) /\ LogSession(g)
              /\ UNCHANGED <<queueVars, tokenVars, serverVars>>
    \/ \E d \in TickSizes :
          Tick(d) /\ UNCHANGED <<queueVars, tokenVars, serverVars, reconnect_log>>

(***************************************************************************)
(* ConnectionManager: the registry (connection_manager.py, lines 25-143).  *)
(***************************************************************************)
\* self.connection_metadata has no entry for the connection
NoMeta == [present |-> FALSE, game_id |-> 0, player_id |-> 0]

\* lines 39-43: the metadata of a new connection, game_id and player_id None
NewMeta == [present |-> TRUE, game_id |-> 0, player_id |-> 0]

\* a set_game_info that writes the entry whether or not there is one
set_game_info_creates(meta, c, g, p) ==
    [meta EXCEPT ![c] = [present |-> TRUE, game_id |-> g, player_id |-> p]]

\* set_game_info(connection_id, game_id, player_id), lines 103-117
set_game_info(meta, c, g, p) ==
    IF meta[c].present
    THEN [meta EXCEPT ![c] = [present |-> TRUE, game_id |-> g, player_id |-> p]]
    ELSE meta

\* is_connected(connection_id), lines 134-143
is_connected(active, c) == c \in active

\* a send_to_game that takes every tagged connection
connections_of_any_game(meta, g, exclude_connection) ==
    {c \in DOMAIN meta : meta[c].present /\ meta[c].game_id # 0}

\* send_to_game, lines 94-98: the connections whose metadata names the game
connections_to_notify(meta, g, exclude_connection) ==
    {c \in DOMAIN meta :
        meta[c].present /\ meta[c].game_id = g /\ c # exclude_connection}

\* get_game_connections(game_id), lines 119-132: the keys of the dict
get_game_connections(meta, g) ==
    {c \in DOMAIN meta :
        meta[c].present /\ meta[c].game_id = g /\ meta[c].player_id # 0}

\* a message for one connection
Msg(c, type) == [to |-> c, type |-> type]
\* the same message for each connection of a set
MsgAll(cs, type) == {Msg(c, type) : c \in cs}

\* a send_message that unregisters nothing
broken_never(active, msgs) == {}

\* the connections send_message unregisters: registered, and send_json raises
\* because the client end is closed (lines 76-79)
broken(active, msgs) == {c \in active : ~peer_alive[c] /\ \E m \in msgs : m.to = c}

\* send_message (lines 58-79) for each message of msgs, starting from the
\* registry <<active, meta>>: a message to an unregistered connection is
\* dropped; send_json is called for the others, and a connection on which it
\* raises is unregistered by self.disconnect
send_messages(active, meta, msgs) ==
    /\ active_connections' = active \ broken(active, msgs)
    /\ connection_metadata' =
          [c \in DOMAIN meta |->
              IF c \in broken(active, msgs) THEN NoMeta ELSE meta[c]]
    /\ sent' = {[to |-> m.to, type |-> m.type, ok |-> peer_alive[m.to]] :
                   m \in {m \in msgs : is_connected(active, m.to)}}

(***************************************************************************)
(* ChessBoard (board.py).  The position is kept as far as the server looks *)
(* at it: whose turn it is and whether the game is over.  A move is one of *)
(* three kinds, as python-chess judges it in the position.                 *)
(***************************************************************************)
\* games has no entry for the game
NoBoard ==
    [exists |-> FALSE, player_mappings |-> EmptyMap, turn |-> "white",
     over |-> FALSE]

\* ChessBoard(player_mappings), lines 17-25: the starting position
ChessBoard(player_mappings) ==
    [exists |-> TRUE, player_mappings |-> player_mappings, turn |-> "white",
     over |-> FALSE]

\* the moves a client may send: legal and the game goes on, legal and ending
\* the game, not legal
Moves == {"legal", "mate", "illegal"}

\* get_player_color, lines 180-189: None is "none"
get_player_color(b, p) ==
    IF p \in DOMAIN b.player_mappings THEN b.player_mappings[p] ELSE "none"

\* a turn check that passes for either participant
is_players_turn_any(b, p) == get_player_color(b, p) # "none"

\* is_players_turn, lines 191-203
is_players_turn(b, p) ==
    get_player_color(b, p) # "none" /\ get_player_color(b, p) = b.turn

\* a make_move that pushes whatever it is given
move_accepted_any(b, move) == TRUE

\* make_move, lines 31-45: whether parse_san accepts the move; no move is
\* legal once the game is over
move_accepted(b, move) == ~b.over /\ move \in {"legal", "mate"}

other_color(color) == IF color = "white" THEN "black" ELSE "white"

\* make_move, lines 42-43: the board after board.push
pushed(b, move) ==
    [b EXCEPT !.turn = other_color(b.turn), !.over = (move = "mate")]

\* server.py lines 704-707 and 767-770: the first player of player_mappings
\* with the colour (0: None)
player_with_color(b, color) ==
    LET ps == {p \in DOMAIN b.player_mappings : b.player_mappings[p] = color}
    IN  IF ps = {} THEN 0 ELSE CHOOSE p \in ps : \A q \in ps : p <= q

(***************************************************************************)
(* websocket_endpoint (server.py, lines 466-891).  One handler runs per    *)
(* connection.  A handler suspends only where it awaits the socket or the  *)
(* queue's future, so what it does between two such points is one step.    *)
(***************************************************************************)
\* SERVER_SEARCH_TIME is None
NoLimit == 0
\* the per-move limit in seconds when one is configured
SearchLimit == 1
SearchTimes == {NoLimit, SearchLimit}

\* line 551: a game younger than this is deleted when its start is cancelled
NewGameWindow == 60

\* a field a message does not carry: data.get(...) is None
Missing == 0

\* a websocket_endpoint invocation that has not started
NoHandler == [pc |-> "unborn", game_id |-> 0, player_id |-> 0]

\* connections are numbered in the order they are accepted
NextConn(c) ==
    handler[c].pc = "unborn" /\ \A d \in 1..(c - 1) : handler[d].pc # "unborn"

\* join_queue messages the server is sent
MaxJoins == 2

\* the join_queue invocation the handler of c is inside
CallOf(c) == {k \in Calls : calls[k].conn = c}

\* nothing of the session manager is returned in this step
NoSessionReturn == NoReturn /\ UNCHANGED <<now, ticks, forfeit_reports>>

\* the step handles no make_move and no get_board message
NoMessage == [conn |-> 0, type |-> "-", authorized |-> FALSE]

\* a participant's connection has been closed and its handler has ended
Lost(d) == handler[d].pc = "ended" /\ handler[d].player_id # 0

\* line 476: connection_manager.connect(websocket); the clients make their
\* first connections, and a further connection is made by a participant
\* whose connection was lost
Connect(c) ==
    /\ NextConn(c)
    /\ c > NumConns => \E d \in SessConns : Lost(d)
    /\ active_connections' = active_connections \cup {c}
    /\ connection_metadata' = [connection_metadata EXCEPT ![c] = NewMeta]
    /\ peer_alive' = [peer_alive EXCEPT ![c] = TRUE]
    /\ handler' = [handler EXCEPT ![c].pc = "recv"]
    /\ sent' = {}
    /\ received' = NoMessage
    /\ NoSessionReturn
    /\ UNCHANGED <<queueVars, tokenVars, sessions, connection_to_game, games,
                   game_creation_times, move_start_times, SERVER_SEARCH_TIME>>

\* the client closes its end of the socket
PeerClose(c) ==
    /\ handler[c].pc \in {"recv", "joining"}
    /\ peer_alive[c]
    /\ peer_alive' = [peer_alive EXCEPT ![c] = FALSE]
    /\ sent' = {}
    /\ received' = NoMessage
    /\ NoSessionReturn
    /\ UNCHANGED <<queueVars, tokenVars, sessions, connection_to_game,
                   active_connections, connection_metadata, handler, games,
                   game_creation_times, move_start_times, SERVER_SEARCH_TIME>>

\* the client behind connection c is participant p: c was given p's token in
\* match_found or has presented it before, or c is a new connection of the
\* client whose connection as p was lost
IsParticipant(c, p) ==
    \/ handler[c].player_id = p
    \/ /\ handler[c].player_id = 0
       /\ \E d \in SessConns \ {c} : handler[d].player_id = p /\ Lost(d)

\* an error answer to the sender and nothing else (the `continue` branches)
ErrorToSender(c) ==
    /\ send_messages(active_connections, connection_metadata, {Msg(c, "error")})
    /\ NoSessionReturn
    /\ UNCHANGED <<queueVars, tokenVars, sessions, connection_to_game,
                   peer_alive, handler, games, game_creation_times,
                   move_start_times, SERVER_SEARCH_TIME>>

(***************************************************************************)
(* join_queue message, lines 490-650.                                      *)
(***************************************************************************)
\* lines 512-541: the connection the queue slot holds now, and the passive
\* health check of it and of the current connection
players_healthy(slot, c) ==
    slot = NoEntry
    \/ (/\ is_connected(active_connections, slot.connection_id)
        /\ is_connected(active_connections, c))

\* lines 617-621: the first player of the match other than player_id
waiting_player_id(r) ==
    LET ps == DOMAIN r.player_mappings \ {r.player_id}
    IN  IF ps = {} THEN 0 ELSE CHOOSE p \in ps : \A q \in ps : p <= q

\* lines 543-581: the start of the game is cancelled and the endpoint
\* returns, which closes the socket
MatchCancelled(c, r, slot) ==
    LET g == r.game_id
        delete == /\ game_creation_times[g] # NoTime
                  /\ now - game_creation_times[g] < NewGameWindow
                  /\ games[g].exists
    IN  /\ games' = IF delete THEN [games EXCEPT ![g] = NoBoard] ELSE games
        /\ game_creation_times' =
              IF delete THEN [game_creation_times EXCEPT ![g] = NoTime]
              ELSE game_creation_times
        /\ send_messages(active_connections, connection_metadata,
               {Msg(c, "error"), Msg(slot.connection_id, "error")})
        /\ handler' = [handler EXCEPT ![c] =
               [pc |-> "returned", game_id |-> g, player_id |-> r.player_id]]
        /\ received' = NoMessage
        /\ peer_alive' = [peer_alive EXCEPT ![c] = FALSE]
        /\ NoSessionReturn
        /\ UNCHANGED <<tokenVars, sessions, connection_to_game,
                       move_start_times, SERVER_SEARCH_TIME>>

\* lines 583-650: the game is created and the player is told
MatchFound(c, r, slot) ==
    LET g == r.game_id
        p == r.player_id
        own == <<<<p, c>>>>
        both == IF slot # NoEntry /\ waiting_player_id(r) # 0
                THEN DictSet(own, waiting_player_id(r), slot.connection_id)
                ELSE own
    IN  /\ games' = IF ~games[g].exists
                    THEN [games EXCEPT ![g] = ChessBoard(r.player_mappings)]
                    ELSE games
        /\ game_creation_times' =
              IF ~games[g].exists THEN [game_creation_times EXCEPT ![g] = now]
              ELSE game_creation_times
        /\ generate_auth_token(g, p)
        /\ sessions' = [sessions EXCEPT ![g] =
               [GameSession(own) EXCEPT !.player_connections = both]]
        /\ connection_to_game' = track_connections(connection_to_game, g, own)
        /\ move_start_times' =
              IF SERVER_SEARCH_TIME # NoLimit
              THEN [move_start_times EXCEPT ![g][r.first_move] = now]
              ELSE move_start_times
        /\ send_messages(active_connections,
               set_game_info(connection_metadata, c, g, p),
               {Msg(c, "match_found")})
        /\ handler' = [handler EXCEPT ![c] =
               [pc |-> "recv", game_id |-> g, player_id |-> p]]
        /\ received' = NoMessage
        /\ NoSessionReturn
        /\ UNCHANGED <<peer_alive, SERVER_SEARCH_TIME>>

\* lines 506-650: join_queue returned the match result r while the queue
\* slot is `slot`
PostMatch(c, r, slot) ==
    IF players_healthy(slot, c) THEN MatchFound(c, r, slot)
    ELSE MatchCancelled(c, r, slot)

\* the message arrives and the slot is free: the handler waits in join_queue
RecvJoinWait(c) ==
    /\ handler[c].pc = "recv"
    /\ peer_alive[c]
    /\ \E k \in 1..MaxJoins : JoinAsWaiter(k, c)
    /\ handler' = [handler EXCEPT ![c].pc = "joining"]
    /\ sent' = {}
    /\ received' = NoMessage
    /\ NoSessionReturn
    /\ UNCHANGED <<tokenVars, sessions, connection_to_game, active_connections,
                   connection_metadata, peer_alive, games, game_creation_times,
                   move_start_times, SERVER_SEARCH_TIME>>

\* the message arrives and another connection waits: join_queue returns at
\* once and the handler goes on without suspending
RecvJoinMatch(c) ==
    /\ handler[c].pc = "recv"
    /\ peer_alive[c]
    /\ \E k \in 1..MaxJoins :
          /\ JoinAsSecond(k, c)
          /\ PostMatch(c, calls'[k].ret, waiting_player')

\* the waiting handler is resumed with the match result
JoinMatched(c) ==
    /\ handler[c].pc = "joining"
    /\ \E k \in CallOf(c) :
          /\ WaitResult(k)
          /\ PostMatch(c, future[k].result, waiting_player)

\* the matchmaking timeout elapses while the handler waits
JoinTimerFires(c) ==
    /\ handler[c].pc = "joining"
    /\ \E k \in CallOf(c) : WaitTimeout(k)
    /\ sent' = {}
    /\ received' = NoMessage
    /\ NoSessionReturn
    /\ UNCHANGED <<tokenVars, sessions, connection_to_game, active_connections,
                   connection_metadata, peer_alive, handler, games,
                   game_creation_times, move_start_times, SERVER_SEARCH_TIME>>

\* lines 500-505: join_queue returned None, queue_timeout is sent
JoinTimedOut(c) ==
    /\ handler[c].pc = "joining"
    /\ \E k \in CallOf(c) : TimeoutCleanup(k)
    /\ send_messages(active_connections, connection_metadata,
           {Msg(c, "queue_timeout")})
    /\ handler' = [handler EXCEPT ![c].pc = "recv"]
    /\ received' = NoMessage
    /\ NoSessionReturn
    /\ UNCHANGED <<tokenVars, sessions, connection_to_game, peer_alive, games,
                   game_creation_times, move_start_times, SERVER_SEARCH_TIME>>

(***************************************************************************)
(* make_move message, lines 652-783.                                       *)
(***************************************************************************)
\* the message names a game and a participant and carries the token stored
\* for that pair
TokenValidates(m) ==
    /\ m.game_id # Missing /\ m.player_id # Missing /\ m.auth_token # Missing
    /\ auth_tokens[m.game_id][m.player_id] = m.auth_token

\* the credentials connection c can present rightfully: a game, a participant
\* the client behind c is, and the token stored for the pair
OwnCredentials(c) ==
    {[game_id |-> gp[1], player_id |-> gp[2],
      auth_token |-> auth_tokens[gp[1]][gp[2]]] :
        gp \in {gp \in GameIds \X PlayerIds :
                   /\ auth_tokens[gp[1]][gp[2]] # NoToken
                   /\ IsParticipant(c, gp[2])}}

\* other credentials clients present: a value that is no token, the first
\* token issued (the token of another pair once more are issued), the ids
\* of a game that was never created, and credentials lacking a field
OtherCredentials ==
    {[game_id |-> 1, player_id |-> 2, auth_token |-> MaxIssues + 1],
     [game_id |-> 1, player_id |-> 2, auth_token |-> token_urlsafe(0)],
     [game_id |-> 4, player_id |-> 5, auth_token |-> token_urlsafe(0)],
     [game_id |-> Missing, player_id |-> 2, auth_token |-> token_urlsafe(0)],
     [game_id |-> 1, player_id |-> Missing, auth_token |-> token_urlsafe(0)],
     [game_id |-> 1, player_id |-> 2, auth_token |-> Missing]}

\* the make_move messages connection c sends: every kind of move with its
\* own credentials, a move with other credentials, and a message without move
MoveMessages(c) ==
    {[move |-> m, game_id |-> cr.game_id, player_id |-> cr.player_id,
      auth_token |-> cr.auth_token] : m \in Moves, cr \in OwnCredentials(c)}
    \cup {[move |-> "legal", game_id |-> cr.game_id, player_id |-> cr.player_id,
           auth_token |-> cr.auth_token] : cr \in OtherCredentials}
    \cup {[move |-> "", game_id |-> cr.game_id, player_id |-> cr.player_id,
           auth_token |-> cr.auth_token] : cr \in OwnCredentials(c)}

\* line 660: all([move, move_game_id, move_player_id, move_auth_token])
move_fields_present(m) ==
    m.move # "" /\ m.game_id # Missing /\ m.player_id # Missing
    /\ m.auth_token # Missing

\* lines 695-726: the mover exceeded the limit, the game ends for the opponent
Disqualify(c, g, p) ==
    /\ send_messages(active_connections, connection_metadata,
           MsgAll(connections_to_notify(connection_metadata, g, 0), "game_over"))
    /\ remove_session(g)
    /\ move_start_times' =
          [move_start_times EXCEPT ![g] = [q \in PlayerIds |-> NoTime]]
    /\ NoSessionReturn
    /\ UNCHANGED <<queueVars, tokenVars, peer_alive, handler, games,
                   game_creation_times, SERVER_SEARCH_TIME>>

\* lines 733-777: the move is made, the clock of the next player starts and
\* move_made goes to the connections of the game
ApplyMove(c, g, move) ==
    LET b == pushed(games[g], move)
        next_player_id == player_with_color(b, b.turn)
    IN  /\ games' = [games EXCEPT ![g] = b]
        /\ move_start_times' =
              IF SERVER_SEARCH_TIME # NoLimit /\ ~b.over /\ next_player_id # 0
              THEN [move_start_times EXCEPT ![g][next_player_id] = now]
              ELSE move_start_times
        /\ send_messages(active_connections, connection_metadata,
               MsgAll(connections_to_notify(connection_metadata, g, 0), "move_made"))
        /\ NoSessionReturn
        /\ UNCHANGED <<queueVars, tokenVars, sessions, connection_to_game,
                       peer_alive, handler, game_creation_times,
                       SERVER_SEARCH_TIME>>

\* a time check that never finds a violation
over_time_never(g, p) == FALSE

\* a time check that takes a missing start time for a start at time NoTime
over_time_unrecorded(g, p) ==
    /\ SERVER_SEARCH_TIME # NoLimit
    /\ now - move_start_times[g][p] > SERVER_SEARCH_TIME

\* a time check that finds a violation as soon as the limit is reached
over_time_at_limit(g, p) ==
    /\ SERVER_SEARCH_TIME # NoLimit
    /\ move_start_times[g][p] # NoTime
    /\ now - move_start_times[g][p] >= SERVER_SEARCH_TIME

\* line 691-695: the turn of the player is timed and took longer than the limit
over_time(g, p) ==
    /\ SERVER_SEARCH_TIME # NoLimit
    /\ move_start_times[g][p] # NoTime
    /\ now - move_start_times[g][p] > SERVER_SEARCH_TIME

\* the make_move message m reaches the time check and fails it
Disqualifies(m) ==
    /\ move_fields_present(m)
    /\ validate_auth_token(m.game_id, m.player_id, m.auth_token)
    /\ games[m.game_id].exists
    /\ is_players_turn(games[m.game_id], m.player_id)
    /\ over_time(m.game_id, m.player_id)

\* no disqualification has been issued
NoGameOver ==
    [game_id |-> 0, winner |-> 0, disqualified_player |-> 0, move_duration |-> 0]

\* lines 699-717: the game_over of a disqualification names the game, the
\* first player of the board with the other colour as the winner, and the
\* mover; it is kept with the move_duration of line 693
LogDisqualification(m) ==
    game_over_msg' =
        IF Disqualifies(m)
        THEN [game_id |-> m.game_id,
              winner |-> player_with_color(games[m.game_id],
                             other_color(get_player_color(games[m.game_id],
                                                          m.player_id))),
              disqualified_player |-> m.player_id,
              move_duration |-> now - move_start_times[m.game_id][m.player_id]]
        ELSE game_over_msg

MakeMove(c, m) ==
    /\ handler[c].pc = "recv"
    /\ peer_alive[c]
    /\ received' = [conn |-> c, type |-> "make_move",
                    authorized |-> m.move # "" /\ TokenValidates(m)]
    /\ IF ~move_fields_present(m) THEN ErrorToSender(c)
       ELSE IF ~validate_auth_token(m.game_id, m.player_id, m.auth_token)
       THEN ErrorToSender(c)
       ELSE IF ~games[m.game_id].exists THEN ErrorToSender(c)
       ELSE IF ~is_players_turn(games[m.game_id], m.player_id)
       THEN ErrorToSender(c)
       ELSE IF over_time(m.game_id, m.player_id)
       THEN Disqualify(c, m.game_id, m.player_id)
       ELSE IF ~move_accepted(games[m.game_id], m.move) THEN ErrorToSender(c)
       ELSE ApplyMove(c, m.game_id, m.move)

(***************************************************************************)
(* get_board message, lines 785-842.                                       *)
(***************************************************************************)
\* the get_board messages connection c sends
BoardMessages(c) == OwnCredentials(c) \cup OtherCredentials

\* line 791: all([board_game_id, board_player_id, board_auth_token])
board_fields_present(m) ==
    m.game_id # Missing /\ m.player_id # Missing /\ m.auth_token # Missing

\* lines 806-842: the connection is bound to the game, the session takes it
\* as the player's connection and the board is sent
Rebind(c, g, p) ==
    LET meta == set_game_info(connection_metadata, c, g, p)
        reconnect_success == sessions[g].exists
        answer == IF games[g].exists THEN "board_state" ELSE "error"
    IN  /\ handle_reconnect(c, g, p)
        /\ handler' = [handler EXCEPT ![c].game_id = g, ![c].player_id = p]
        /\ send_messages(active_connections, meta,
               (IF reconnect_success
                THEN MsgAll(connections_to_notify(meta, g, c), "opponent_reconnected")
                ELSE {})
               \cup {Msg(c, answer)})
        /\ NoSessionReturn
        /\ UNCHANGED <<queueVars, tokenVars, peer_alive, games,
                       game_creation_times, move_start_times,
                       SERVER_SEARCH_TIME>>

GetBoard(c, m) ==
    /\ handler[c].pc = "recv"
    /\ peer_alive[c]
    /\ received' = [conn |-> c, type |-> "get_board",
                    authorized |-> TokenValidates(m)]
    /\ IF ~board_fields_present(m) THEN ErrorToSender(c)
       ELSE IF ~validate_auth_token(m.game_id, m.player_id, m.auth_token)
       THEN ErrorToSender(c)
       ELSE Rebind(c, m.game_id, m.player_id)

\* ping message, lines 844-848
Ping(c) ==
    /\ handler[c].pc = "recv"
    /\ peer_alive[c]
    /\ send_messages(active_connections, connection_metadata, {Msg(c, "pong")})
    /\ received' = NoMessage
    /\ NoSessionReturn
    /\ UNCHANGED <<queueVars, tokenVars, sessions, connection_to_game,
                   peer_alive, handler, games, game_creation_times,
                   move_start_times, SERVER_SEARCH_TIME>>

(***************************************************************************)
(* except WebSocketDisconnect, lines 850-891: receive_json raised because  *)
(* the client end is closed.                                               *)
(***************************************************************************)
Disconnected(c) ==
    LET g == handler[c].game_id
        active == active_connections \ {c}
        meta == [connection_metadata EXCEPT ![c] = NoMeta]
        info == IF g # 0 /\ handler[c].player_id # 0
                THEN disconnect_outcome(c) ELSE <<NoInfo, sessions>>
    IN  /\ handler[c].pc = "recv"
        /\ ~peer_alive[c]
        /\ remove_from_queue(c)
        /\ disconnect_info' = info[1]
        /\ forfeits' = {}
        /\ IF info[1].status = "disconnected"
           THEN /\ sessions' = info[2]
                /\ UNCHANGED connection_to_game
                /\ send_messages(active, meta,
                       MsgAll(connections_to_notify(meta, g, c), "opponent_disconnected"))
           ELSE IF info[1].status \in {"forfeit", "cancelled"}
           THEN /\ remove_session_from(info[2], g)
                /\ send_messages(active, meta,
                       MsgAll(connections_to_notify(meta, g, 0), "game_over"))
           ELSE /\ sessions' = info[2]
                /\ UNCHANGED connection_to_game
                /\ send_messages(active, meta, {})
        /\ handler' = [handler EXCEPT ![c].pc = "ended"]
        /\ received' = NoMessage
        /\ UNCHANGED <<calls, uuid_ctr, matches, tokenVars, now, ticks,
                       forfeit_reports, peer_alive, games, game_creation_times,
                       move_start_times, SERVER_SEARCH_TIME>>

\* number of times the clock advances while the server runs
MaxServerTicks == 1

\* the clock advances by the per-move limit or by the grace period
ServerTickSizes == {SearchLimit, forfeit_timeout}

\* time passes; the server reads the clock only to compare it with a
\* timestamp it recorded, so time before the first timestamp is not counted
ServerTick(d) ==
    /\ \E g \in GameIds : game_creation_times[g] # NoTime
    /\ ticks < MaxServerTicks
    /\ now' = now + d
    /\ ticks' = ticks + 1
    /\ NoReturn
    /\ UNCHANGED <<sessions, connection_to_game, forfeit_reports>>
    /\ sent' = {}
    /\ received' = NoMessage
    /\ UNCHANGED <<queueVars, tokenVars, active_connections,
                   connection_metadata, peer_alive, handler, games,
                   game_creation_times, move_start_times, SERVER_SEARCH_TIME>>

\* no send_message and no send_to_game call has been made
NoCall ==
    [kind |-> "none", to |-> 0, returned |-> FALSE, game_id |-> 0,
     exclude_connection |-> 0, snapshot |-> {}, pending |-> {},
     attempted |-> {}]

\* server.py lines 25-30 and ConnectionManager.__init__: nothing registered,
\* no game
InitServerState ==
    /\ active_connections = {}
    /\ connection_metadata = [c \in SessConns |-> NoMeta]
    /\ peer_alive = [c \in SessConns |-> FALSE]
    /\ handler = [c \in SessConns |-> NoHandler]
    /\ received = NoMessage
    /\ games = [g \in GameIds |-> NoBoard]
    /\ game_creation_times = [g \in GameIds |-> NoTime]
    /\ move_start_times = [g \in GameIds |-> [p \in PlayerIds |-> NoTime]]
    /\ sent = {}
    /\ game_over_log = [c \in SessConns |-> 0]
    /\ game_over_msg = NoGameOver
    /\ match_found_log = [c \in SessConns |-> <<>>]
    /\ cm_call = NoCall
    /\ lock = FALSE

NextServer ==
    \/ \E c \in SessConns : Connect(c) /\ UNCHANGED logVars
    \/ \E c \in SessConns : PeerClose(c) /\ UNCHANGED logVars
    \/ \E c \in SessConns : RecvJoinWait(c) /\ UNCHANGED logVars
    \/ \E c \in SessConns : RecvJoinMatch(c) /\ UNCHANGED logVars
    \/ \E c \in SessConns : JoinMatched(c) /\ UNCHANGED logVars
    \/ \E c \in SessConns : JoinTimerFires(c) /\ UNCHANGED logVars
    \/ \E c \in SessConns : JoinTimedOut(c) /\ UNCHANGED logVars
    \/ \E c \in SessConns : \E m \in MoveMessages(c) : MakeMove(c, m) /\ UNCHANGED logVars
    \/ \E c \in SessConns : \E m \in BoardMessages(c) : GetBoard(c, m) /\ UNCHANGED logVars
    \/ \E c \in SessConns : Ping(c) /\ UNCHANGED logVars
    \/ \E c \in SessConns : Disconnected(c) /\ UNCHANGED logVars
    \/ \E d \in ServerTickSizes : ServerTick(d) /\ UNCHANGED logVars

(***************************************************************************)
(* The queue on its own: any connection may call join_queue and            *)
(* remove_from_queue at any time (as the tests of test_queue.py do).       *)
(***************************************************************************)
InitQueue ==
    /\ waiting_player = NoEntry
    /\ future = [k \in Calls |-> FutureNone]
    /\ calls = [k \in Calls |-> IdleCall]
    /\ uuid_ctr = 0
    /\ matches = <<>>

NextQueue ==
    \/ \E k \in Calls, c \in Conns : JoinAsWaiter(k, c) /\ UNCHANGED <<tokenVars, sessionVars, serverVars>>
    \/ \E k \in Calls, c \in Conns : JoinSelf(k, c) /\ UNCHANGED <<tokenVars, sessionVars, serverVars>>
    \/ \E k \in Calls, c \in Conns : JoinAsSecond(k, c) /\ UNCHANGED <<tokenVars, sessionVars, serverVars>>
    \/ \E k \in Calls : WaitResult(k) /\ UNCHANGED <<tokenVars, sessionVars, serverVars>>
    \/ \E k \in Calls : WaitTimeout(k) /\ UNCHANGED <<tokenVars, sessionVars, serverVars>>
    \/ \E k \in Calls : TimeoutCleanup(k) /\ UNCHANGED <<tokenVars, sessionVars, serverVars>>
    \/ \E k \in Calls : CancelledWhileWaiting(k) /\ UNCHANGED <<tokenVars, sessionVars, serverVars>>
    \/ \E k \in Calls : WaitWithdrawn(k) /\ UNCHANGED <<tokenVars, sessionVars, serverVars>>
    \/ \E c \in Conns : RemoveFromQueue(c) /\ UNCHANGED <<tokenVars, sessionVars, serverVars>>

(***************************************************************************)
(* The server with a per-move limit and two clients that stay connected    *)
(* and are matched with each other: time passes while turn clocks run, and *)
(* the game_over messages sent to each connection are counted.             *)
(***************************************************************************)
\* number of times the clock advances
MaxClockTicks == 2

\* game_over messages counted per connection
MaxGameOvers == 2

\* the clock advances by the limit or by more than it
ClockTickSizes == {SearchLimit, SearchLimit + 1}

\* time passes while a turn clock runs; a handler whose future has a result
\* is resumed by the event loop before seconds pass
ClockTick(d) ==
    /\ \E g \in GameIds, p \in PlayerIds : move_start_times[g][p] # NoTime
    /\ \A k \in Calls : ~(calls[k].pc = "waiting" /\ future[k].state = "result")
    /\ ticks < MaxClockTicks
    /\ now' = now + d
    /\ ticks' = ticks + 1
    /\ NoReturn
    /\ UNCHANGED <<sessions, connection_to_game, forfeit_reports>>
    /\ sent' = {}
    /\ received' = NoMessage
    /\ UNCHANGED <<queueVars, tokenVars, active_connections,
                   connection_metadata, peer_alive, handler, games,
                   game_creation_times, move_start_times, SERVER_SEARCH_TIME>>

\* the game_over messages of the step are counted
LogGameOvers ==
    game_over_log' =
        [c \in DOMAIN game_over_log |->
            IF /\ [to |-> c, type |-> "game_over", ok |-> TRUE] \in sent'
               /\ game_over_log[c] < MaxGameOvers
            THEN game_over_log[c] + 1
            ELSE game_over_log[c]]

InitClock ==
    /\ InitQueue /\ InitTokens /\ InitSessions /\ InitServerState
    /\ SERVER_SEARCH_TIME = SearchLimit

NextClock ==
    \/ \E c \in Conns : Connect(c) /\ UNCHANGED logVars
    \/ \E c \in Conns : RecvJoinWait(c) /\ UNCHANGED logVars
    \/ \E c \in Conns : RecvJoinMatch(c) /\ UNCHANGED logVars
    \/ \E c \in Conns : JoinMatched(c) /\ UNCHANGED logVars
    \/ \E c \in Conns : \E m \in MoveMessages(c) :
          MakeMove(c, m) /\ LogGameOvers /\ LogDisqualification(m)
              /\ UNCHANGED <<reconnect_log, match_found_log, cm_call, lock>>
    \/ \E d \in ClockTickSizes :
          ClockTick(d) /\ UNCHANGED logVars

(***************************************************************************)
(* The server with two clients that are matched with each other and then   *)
(* may close their sockets, and the grace period passing after one of them *)
(* was lost.  The event loop resumes a handler whose future has a result   *)
(* and a handler whose socket was closed, and time passes.                 *)
(***************************************************************************)
\* the connection of a participant was lost and the connection of another
\* participant of the same game is open
OpponentLost(d) ==
    \E c \in SessConns :
        /\ c # d
        /\ Lost(c)
        /\ handler[d].pc = "recv"
        /\ handler[d].game_id = handler[c].game_id
        /\ handler[d].player_id # handler[c].player_id
        /\ peer_alive[d]

\* the grace period passes after a participant was lost
GraceTick ==
    /\ \E d \in Conns : OpponentLost(d)
    /\ ticks < MaxServerTicks
    /\ now' = now + forfeit_timeout
    /\ ticks' = ticks + 1
    /\ NoReturn
    /\ UNCHANGED <<sessions, connection_to_game, forfeit_reports>>
    /\ sent' = {}
    /\ received' = NoMessage
    /\ UNCHANGED <<queueVars, tokenVars, active_connections,
                   connection_metadata, peer_alive, handler, games,
                   game_creation_times, move_start_times, SERVER_SEARCH_TIME>>

Resumed == \E c \in Conns : JoinMatched(c) /\ UNCHANGED logVars
Noticed == \E c \in Conns : Disconnected(c) /\ UNCHANGED logVars
GracePasses == GraceTick /\ UNCHANGED logVars

NextForfeit ==
    \/ \E c \in Conns : Connect(c) /\ UNCHANGED logVars
    \/ \E c \in Conns : RecvJoinWait(c) /\ UNCHANGED logVars
    \/ \E c \in Conns : RecvJoinMatch(c) /\ UNCHANGED logVars
    \/ \E c \in Conns : Ping(c) /\ UNCHANGED logVars
    \/ \E c \in Conns : PeerClose(c) /\ UNCHANGED logVars
    \/ Resumed
    \/ Noticed
    \/ GracePasses

(***************************************************************************)
(* The server with two clients that stay connected and send join_queue:    *)
(* the match_found messages are kept with their fields.  The event loop    *)
(* resumes a handler whose future has a result.                            *)
(***************************************************************************)
\* lines 638-650: the match_found message built from match result r, with
\* the token generate_auth_token has just stored
match_message(r) ==
    [game_id |-> r.game_id,
     player_id |-> r.player_id,
     auth_token |-> auth_tokens'[r.game_id][r.player_id],
     assigned_color |-> r.assigned_color,
     first_move |-> r.first_move]

\* the match_found sent to c in the step, built from r, is kept
LogMatchFound(c, r) ==
    match_found_log' =
        IF [to |-> c, type |-> "match_found", ok |-> TRUE] \in sent'
        THEN [match_found_log EXCEPT ![c] = Append(@, match_message(r))]
        ELSE match_found_log

\* the handler of c is resumed with the result of its future
ResumedWithMatch ==
    \E c \in Conns : \E k \in CallOf(c) :
        /\ JoinMatched(c)
        /\ LogMatchFound(c, future[k].result)
        /\ UNCHANGED <<reconnect_log, game_over_log, game_over_msg, cm_call,
                       lock>>

\* join_queue returns a match to the handler of c at once
MatchedAtOnce ==
    \E c \in Conns : \E k \in 1..MaxJoins :
        /\ RecvJoinMatch(c)
        /\ calls[k].pc = "idle" /\ calls'[k].pc = "done"
        /\ LogMatchFound(c, calls'[k].ret)
        /\ UNCHANGED <<reconnect_log, game_over_log, game_over_msg, cm_call,
                       lock>>

NextMatch ==
    \/ \E c \in Conns : Connect(c) /\ UNCHANGED logVars
    \/ \E c \in Conns : RecvJoinWait(c) /\ UNCHANGED logVars
    \/ MatchedAtOnce
    \/ ResumedWithMatch
    \/ \E c \in Conns : JoinTimerFires(c) /\ UNCHANGED logVars
    \/ \E c \in Conns : JoinTimedOut(c) /\ UNCHANGED logVars
    \/ \E c \in Conns : Ping(c) /\ UNCHANGED logVars

(***************************************************************************)
(* The server with a lone client in the queue: other clients connect but  *)
(* send no join_queue.  The matchmaking                                    *)
(* timeout is finite (MATCHMAKING_TIMEOUT, server.py lines 37-44, is 60 s  *)
(* unless the environment says none), so the timer of wait_for fires, and  *)
(* the event loop then resumes the handler.                                *)
(***************************************************************************)
\* the connection of the client that sends join_queue
LoneConns == {c \in Conns : \A d \in Conns : c <= d}

TimerFires ==
    \E c \in LoneConns :
        JoinTimerFires(c) /\ UNCHANGED logVars

ResumedWithTimeout ==
    \E c \in LoneConns :
        JoinTimedOut(c) /\ UNCHANGED logVars

NextLone ==
    \/ \E c \in Conns : Connect(c) /\ UNCHANGED logVars
    \/ \E c \in LoneConns : RecvJoinWait(c) /\ UNCHANGED logVars
    \/ TimerFires
    \/ ResumedWithTimeout
    \/ \E c \in Conns : \E m \in MoveMessages(c) :
          MakeMove(c, m) /\ UNCHANGED logVars
    \/ \E c \in Conns : \E m \in BoardMessages(c) :
          GetBoard(c, m) /\ UNCHANGED logVars
    \/ \E c \in Conns : Ping(c) /\ UNCHANGED logVars
    \/ \E c \in Conns : PeerClose(c) /\ UNCHANGED logVars
    \/ \E c \in Conns : Disconnected(c) /\ UNCHANGED logVars

(***************************************************************************)
(* The ConnectionManager on its own, driven as test_connection_manager.py  *)
(* drives it: connections are registered, bound to games, unregistered and *)
(* closed by their clients, and send_message and send_to_game are called.  *)
(* send_to_game takes its snapshot under the lock and then awaits one      *)
(* send_message after the other, so other calls run in between.            *)
(***************************************************************************)
\* what the manager on its own leaves alone
CmFrame ==
    UNCHANGED <<queueVars, tokenVars, sessionVars, games, game_creation_times,
                move_start_times, SERVER_SEARCH_TIME, received, game_over_log,
                game_over_msg, match_found_log>>

\* connect(websocket), lines 25-45
CmConnect(c) ==
    /\ NextConn(c)
    /\ ~lock
    /\ active_connections' = active_connections \cup {c}
    /\ connection_metadata' = [connection_metadata EXCEPT ![c] = NewMeta]
    /\ peer_alive' = [peer_alive EXCEPT ![c] = TRUE]
    /\ handler' = [handler EXCEPT ![c].pc = "recv"]
    /\ sent' = {}
    /\ UNCHANGED <<cm_call, lock>>
    /\ CmFrame

\* disconnect(connection_id), lines 47-56
CmDisconnect(c) ==
    /\ ~lock
    /\ active_connections' = active_connections \ {c}
    /\ connection_metadata' = [connection_metadata EXCEPT ![c] = NoMeta]
    /\ sent' = {}
    /\ UNCHANGED <<peer_alive, handler, cm_call, lock>>
    /\ CmFrame

\* set_game_info(connection_id, game_id, player_id), lines 103-117
CmSetGameInfo(c, g, p) ==
    /\ connection_metadata' = set_game_info(connection_metadata, c, g, p)
    /\ sent' = {}
    /\ UNCHANGED <<active_connections, peer_alive, handler, cm_call, lock>>
    /\ CmFrame

\* the client closes its end of the socket
CmPeerClose(c) ==
    /\ handler[c].pc = "recv"
    /\ peer_alive[c]
    /\ peer_alive' = [peer_alive EXCEPT ![c] = FALSE]
    /\ sent' = {}
    /\ UNCHANGED <<active_connections, connection_metadata, handler, cm_call,
                   lock>>
    /\ CmFrame

\* lines 69-79: what send_message returns: False for a connection that is
\* not registered and for one on which send_json raises
send_returns(active, c) == is_connected(active, c) /\ peer_alive[c]

\* a send_message without its except clause
send_raises_uncaught(active, c) == is_connected(active, c) /\ ~peer_alive[c]

\* lines 73-79: what send_message lets through to its caller of what
\* send_json raises: nothing, the except clause catches it
send_raises(active, c) == FALSE

\* send_to_game with its loop inside the with block: the lock is still held
\* when the sends begin
lock_during_sends == TRUE

\* send_to_game, lines 94-100: the with block ends with the list of
\* recipients, so the lock is free when the loop begins
lock_after_snapshot == FALSE

\* lines 76-78: the except clause of send_message awaits disconnect, which
\* waits for the lock
needs_lock(active, c) == is_connected(active, c) /\ ~peer_alive[c]

\* send_message(connection_id, message), lines 58-79, called on its own
SendMessage(c) ==
    /\ cm_call.pending = {}
    /\ ~send_raises(active_connections, c)
    /\ needs_lock(active_connections, c) => ~lock
    /\ send_messages(active_connections, connection_metadata, {Msg(c, "message")})
    /\ cm_call' = [NoCall EXCEPT !.kind = "send", !.to = c,
                                 !.returned = send_returns(active_connections, c)]
    /\ UNCHANGED <<peer_alive, handler, lock>>
    /\ CmFrame

\* send_to_game(game_id, message, exclude_connection), lines 94-98: the
\* snapshot taken under the lock
SendToGameSnapshot(g, exclude_connection) ==
    /\ cm_call.pending = {}
    /\ ~lock
    /\ lock' = lock_after_snapshot
    /\ cm_call' =
          [NoCall EXCEPT
              !.kind = "broadcast", !.game_id = g,
              !.exclude_connection = exclude_connection,
              !.snapshot = connections_to_notify(connection_metadata, g,
                                                 exclude_connection),
              !.pending = connections_to_notify(connection_metadata, g,
                                                exclude_connection)]
    /\ sent' = {}
    /\ UNCHANGED <<active_connections, connection_metadata, peer_alive, handler>>
    /\ CmFrame

\* send_to_game, lines 100-101: the next send_message of the loop, to the
\* connections in dict order (the order they were registered in); the loop
\* ends if send_message raises
SendToGameNext ==
    /\ cm_call.pending # {}
    /\ LET c == CHOOSE x \in cm_call.pending : \A y \in cm_call.pending : x <= y
       IN  /\ needs_lock(active_connections, c) => ~lock
           /\ send_messages(active_connections, connection_metadata,
                  {Msg(c, "message")})
           /\ cm_call' =
                 [cm_call EXCEPT
                     !.to = c,
                     !.returned = send_returns(active_connections, c),
                     !.attempted = @ \cup {c},
                     !.pending = IF send_raises(active_connections, c) THEN {}
                                 ELSE @ \ {c}]
    /\ UNCHANGED <<peer_alive, handler, lock>>
    /\ CmFrame

NextRegistry ==
    \/ \E c \in SessConns : CmConnect(c)
    \/ \E c \in SessConns : CmDisconnect(c)
    \/ \E c \in SessConns, g \in GameIds :
          CmSetGameInfo(c, g, g + 1)
    \/ \E c \in SessConns : CmPeerClose(c)
    \/ \E c \in SessConns : SendMessage(c)
    \/ \E g \in GameIds, x \in {0} \cup SessConns :
          SendToGameSnapshot(g, x)
    \/ SendToGameNext

(***************************************************************************)
(* The server with a per-move limit and two clients that join, send moves   *)
(* of every kind with every credential, and may close their sockets.        *)
(***************************************************************************)
NextMoves ==
    \/ \E c \in Conns : Connect(c) /\ UNCHANGED logVars
    \/ \E c \in Conns : PeerClose(c) /\ UNCHANGED logVars
    \/ \E c \in Conns : RecvJoinWait(c) /\ UNCHANGED logVars
    \/ \E c \in Conns : RecvJoinMatch(c) /\ UNCHANGED logVars
    \/ \E c \in Conns : JoinMatched(c) /\ UNCHANGED logVars
    \/ \E c \in Conns : \E m \in MoveMessages(c) : MakeMove(c, m) /\ UNCHANGED logVars
    \/ \E c \in Conns : Disconnected(c) /\ UNCHANGED logVars
    \/ \E d \in ClockTickSizes : ClockTick(d) /\ UNCHANGED logVars

SpecMoves == InitClock /\ [][NextMoves]_vars

(***************************************************************************)
(* The server with a per-move limit and two clients that, once matched,     *)
(* send join_queue again on the connections they have and are matched into *)
(* a second game, and send moves for either game with the credentials they *)
(* were given for it.                                                       *)
(***************************************************************************)
\* a join_queue message after the first pairing: the slot is free
RejoinWait(c) ==
    /\ handler[c].pc = "recv"
    /\ peer_alive[c]
    /\ \E k \in (MaxJoins + 1)..MaxCalls : JoinAsWaiter(k, c)
    /\ handler' = [handler EXCEPT ![c].pc = "joining"]
    /\ sent' = {}
    /\ received' = NoMessage
    /\ NoSessionReturn
    /\ UNCHANGED <<tokenVars, sessions, connection_to_game, active_connections,
                   connection_metadata, peer_alive, games, game_creation_times,
                   move_start_times, SERVER_SEARCH_TIME>>

\* a join_queue message after the first pairing: another connection waits
RejoinMatch(c) ==
    /\ handler[c].pc = "recv"
    /\ peer_alive[c]
    /\ \E k \in (MaxJoins + 1)..MaxCalls :
          /\ JoinAsSecond(k, c)
          /\ PostMatch(c, calls'[k].ret, waiting_player')

\* the credentials connection c was sent in the match_found of its pairings
MatchCredentials(c) ==
    {[game_id |-> r.game_id, player_id |-> r.player_id,
      auth_token |-> auth_tokens[r.game_id][r.player_id]] :
        r \in {r \in {matches[i].player1_result : i \in
                         {i \in DOMAIN matches : matches[i].waiter_conn = c}}
                     \cup {matches[i].player2_result : i \in
                         {i \in DOMAIN matches : matches[i].joiner_conn = c}} :
                   auth_tokens[r.game_id][r.player_id] # NoToken}}

\* the make_move messages connection c sends for the games it was matched
\* into
RematchMoves(c) ==
    {[move |-> mv, game_id |-> cr.game_id, player_id |-> cr.player_id,
      auth_token |-> cr.auth_token] :
        mv \in {"legal", "illegal"}, cr \in MatchCredentials(c)}

NextRematch ==
    \/ \E c \in Conns : Connect(c) /\ UNCHANGED logVars
    \/ \E c \in Conns : RecvJoinWait(c) /\ UNCHANGED logVars
    \/ \E c \in Conns : RecvJoinMatch(c) /\ UNCHANGED logVars
    \/ \E c \in Conns : JoinMatched(c) /\ UNCHANGED logVars
    \/ \E c \in Conns : RejoinWait(c) /\ UNCHANGED logVars
    \/ \E c \in Conns : RejoinMatch(c) /\ UNCHANGED logVars
    \/ \E c \in Conns : \E m \in RematchMoves(c) : MakeMove(c, m) /\ UNCHANGED logVars
    \/ \E d \in ClockTickSizes : ClockTick(d) /\ UNCHANGED logVars

SpecRematch == InitClock /\ [][NextRematch]_vars

(***************************************************************************)
(* Two clients that are matched, queue again for another game and may      *)
(* close their sockets while they wait in the queue: a handler that is     *)
(* suspended in join_queue does not read its socket, so it learns of the   *)
(* close only through a send that fails.                                   *)
(***************************************************************************)
NextDropout ==
    \/ \E c \in Conns : Connect(c) /\ UNCHANGED logVars
    \/ \E c \in Conns : PeerClose(c) /\ UNCHANGED logVars
    \/ \E c \in Conns : RecvJoinWait(c) /\ UNCHANGED logVars
    \/ \E c \in Conns : RecvJoinMatch(c) /\ UNCHANGED logVars
    \/ \E c \in Conns : JoinMatched(c) /\ UNCHANGED logVars
    \/ \E c \in Conns : RejoinWait(c) /\ UNCHANGED logVars
    \/ \E c \in Conns : RejoinMatch(c) /\ UNCHANGED logVars
    \/ \E c \in Conns : \E m \in RematchMoves(c) : MakeMove(c, m) /\ UNCHANGED logVars

(***************************************************************************)
(* The server with two clients that are matched with each other and a      *)
(* third client that connects and sends join_queue at any time.            *)
(***************************************************************************)
\* line 476: connection_manager.connect(websocket) for a further client
ConnectAnother(c) ==
    /\ NextConn(c)
    /\ c > NumConns
    /\ active_connections' = active_connections \cup {c}
    /\ connection_metadata' = [connection_metadata EXCEPT ![c] = NewMeta]
    /\ peer_alive' = [peer_alive EXCEPT ![c] = TRUE]
    /\ handler' = [handler EXCEPT ![c].pc = "recv"]
    /\ sent' = {}
    /\ received' = NoMessage
    /\ NoSessionReturn
    /\ UNCHANGED <<queueVars, tokenVars, sessions, connection_to_game, games,
                   game_creation_times, move_start_times, SERVER_SEARCH_TIME>>

NextThird ==
    \/ \E c \in Conns : Connect(c) /\ UNCHANGED logVars
    \/ \E c \in SessConns : ConnectAnother(c) /\ UNCHANGED logVars
    \/ \E c \in SessConns : RecvJoinWait(c) /\ UNCHANGED logVars
    \/ \E c \in SessConns : RecvJoinMatch(c) /\ UNCHANGED logVars
    \/ \E c \in SessConns : JoinMatched(c) /\ UNCHANGED logVars
    \/ \E c \in SessConns : RejoinWait(c) /\ UNCHANGED logVars
    \/ \E c \in SessConns : \E m \in MoveMessages(c) : MakeMove(c, m) /\ UNCHANGED logVars
    \/ \E c \in SessConns : \E m \in BoardMessages(c) : GetBoard(c, m) /\ UNCHANGED logVars
    \/ \E c \in SessConns : Ping(c) /\ UNCHANGED logVars

\* the components on their own run with no per-move limit configured
Init ==
    /\ InitQueue /\ InitTokens /\ InitSessions /\ InitServerState
    /\ SERVER_SEARCH_TIME = NoLimit

\* the server starts with or without a per-move limit (SEARCH_TIME in the
\* environment, server.py lines 33-35)
InitServer ==
    /\ InitQueue /\ InitTokens /\ InitSessions /\ InitServerState
    /\ SERVER_SEARCH_TIME \in SearchTimes

SpecQueue == Init /\ [][NextQueue]_vars

SpecTokens == Init /\ [][NextTokens]_vars

SpecSessions == Init /\ [][NextSessions]_vars

SpecServer == InitServer /\ [][NextServer]_vars

SpecClock == InitClock /\ [][NextClock]_vars

SpecRegistry == Init /\ [][NextRegistry]_vars

\* the ConnectionManager on its own, with the event loop resuming a
\* send_to_game whose send_json has completed
SpecBroadcast == Init /\ [][NextRegistry]_vars /\ WF_vars(SendToGameNext)

SpecThird == Init /\ [][NextThird]_vars

SpecDropout == Init /\ [][NextDropout]_vars

\* two clients matched and moving, with a maximum think-time configured or
\* without one
SpecTurnClocks == InitServer /\ [][NextMoves]_vars

SpecMatch == InitServer /\ [][NextMatch]_vars /\ WF_vars(ResumedWithMatch)

SpecLone ==
    /\ InitServer
    /\ [][NextLone]_vars
    /\ WF_vars(TimerFires)
    /\ WF_vars(ResumedWithTimeout)

SpecForfeit ==
    /\ InitServer
    /\ [][NextForfeit]_vars
    /\ WF_vars(Resumed)
    /\ WF_vars(Noticed)
    /\ WF_vars(GracePasses)

(***************************************************************************)
(* Properties of the queue.                                                *)
(***************************************************************************)
MatchIdx == 1..Len(matches)

\* the join_queue invocations of pairing i
PairCalls(i) == {matches[i].waiter, matches[i].joiner}

\* invocation k has returned a PlayerMatchResult
GotMatch(k) == calls[k].pc = "done" /\ calls[k].ret # NoResult

\* the pairings in which invocation k returned its half of the result
PairingsOf(k) ==
    {i \in MatchIdx :
        \/ matches[i].waiter = k /\ calls[k].ret = matches[i].player1_result
        \/ matches[i].joiner = k /\ calls[k].ret = matches[i].player2_result}

\* C1  Pairing exclusivity: every pairing joins two different invocations
\* made by two different connection ids, no invocation belongs to two
\* pairings, and an invocation that returns a match returns its half of
\* exactly one pairing.
C1_PairingExclusivity ==
    /\ \A i \in MatchIdx :
          /\ matches[i].waiter # matches[i].joiner
          /\ Cardinality({matches[i].waiter_conn, matches[i].joiner_conn}) = 2
    /\ \A i, j \in MatchIdx : i # j => PairCalls(i) \cap PairCalls(j) = {}
    /\ \A k \in Calls : GotMatch(k) => Cardinality(PairingsOf(k)) = 1

\* C1 witness: a pairing whose two invocations have both returned their
\* halves while a later invocation waits in the slot.
C1_Witness ==
    \E i \in MatchIdx :
        /\ GotMatch(matches[i].waiter)
        /\ GotMatch(matches[i].joiner)
        /\ waiting_player # NoEntry
        /\ waiting_player.future > matches[i].joiner
        /\ future[waiting_player.future].state = "pending"

\* connection c holds the slot with an unfulfilled future
WaitingUnfulfilled(c) ==
    /\ waiting_player # NoEntry
    /\ waiting_player.connection_id = c
    /\ future[waiting_player.future].state = "pending"

\* C2  Self-pairing rejection: a join_queue by the connection that holds the
\* slot with an unfulfilled future returns None at once and leaves the slot
\* and its future as they were; a waiter that returns a match was paired
\* with a different connection, and any other end of its wait is a timeout,
\* a cancellation or a withdrawal.
C2_SelfPairingRejection ==
    /\ [][\A k \in Calls, c \in Conns :
            (WaitingUnfulfilled(c) /\ JoinQueue(k, c)) =>
                /\ calls'[k].pc = "done"
                /\ calls'[k].ret = NoResult
                /\ waiting_player' = waiting_player
                /\ future' = future
                /\ matches' = matches]_vars
    /\ [](\A k \in Calls :
            (calls[k].pc = "done" /\ future[k].state # "none") =>
                \/ /\ calls[k].how = "matched"
                   /\ \E i \in MatchIdx :
                         /\ matches[i].waiter = k
                         /\ matches[i].joiner_conn # matches[i].waiter_conn
                \/ calls[k].how \in {"timeout", "cancelled", "withdrawn"}
                      /\ calls[k].ret = NoResult)

\* C2 witness: a duplicate join was rejected and the first join was later
\* matched.
C2_Witness ==
    \E w, k \in Calls :
        /\ w < k
        /\ calls[k].how = "self"
        /\ calls[w].how = "matched"

\* the entry that invocation k put in the slot
EntryOf(k) == QueueEntry(calls[k].conn, k)

\* C3  Timeout cleanup: the except-TimeoutError step returns None, empties
\* the slot when the slot still holds the caller's entry and leaves it alone
\* when it holds another entry; a different connection that joins while the
\* slot holds a timed-out entry becomes the new waiter and no pairing is
\* made; a timed-out request is never the waiter of a pairing.
C3_TimeoutCleanup ==
    /\ [][\A k \in Calls :
            (calls[k].pc = "timedout" /\ calls'[k].pc = "done") =>
                /\ calls'[k].ret = NoResult
                /\ (waiting_player = EntryOf(k) => waiting_player' = NoEntry)
                /\ (waiting_player # EntryOf(k) =>
                        waiting_player' = waiting_player)]_vars
    /\ [][\A k, j \in Calls, c \in Conns :
            (/\ calls[k].pc = "timedout"
             /\ waiting_player = EntryOf(k)
             /\ c # calls[k].conn
             /\ JoinQueue(j, c)) =>
                /\ waiting_player' = QueueEntry(c, j)
                /\ calls'[j].pc = "waiting"
                /\ matches' = matches]_vars
    /\ [](\A k \in Calls :
            (calls[k].pc = "timedout" \/ calls[k].how = "timeout") =>
                /\ future[k].state = "cancelled"
                /\ \A i \in MatchIdx : matches[i].waiter # k
                /\ (calls[k].pc = "done" => waiting_player.future # k))

\* C3 witness: a request's timeout has fired, and before its cleanup ran a
\* different connection joined and holds the slot.
C3_Witness ==
    \E k, j \in Calls :
        /\ calls[k].pc = "timedout"
        /\ j # k
        /\ calls[j].conn # calls[k].conn
        /\ waiting_player = EntryOf(j)
        /\ future[j].state = "pending"

\* C4  Interrupted wait: once a join_queue that was cancelled while waiting
\* has returned, it has returned None and the slot does not hold its entry.
C4_InterruptedWaitClearsSlot ==
    \A k \in Calls :
        calls[k].how = "cancelled" =>
            /\ calls[k].ret = NoResult
            /\ waiting_player.future # k

\* the two halves of pairing i
Halves(i) == {matches[i].player1_result, matches[i].player2_result}

\* C5  Role complementarity: the two halves of a pairing have different
\* roles, the roles are white and black, and first_move is the player_id of
\* the half whose role is white.
C5_RoleComplementarity ==
    \A i \in MatchIdx :
        LET r1 == matches[i].player1_result
            r2 == matches[i].player2_result
        IN  /\ r1.assigned_color # r2.assigned_color
            /\ {r1.assigned_color, r2.assigned_color} = {"white", "black"}
            /\ \A r \in Halves(i) :
                  /\ r.first_move \in {r1.player_id, r2.player_id}
                  /\ (r.assigned_color = "white") <=> (r.first_move = r.player_id)
                  /\ r.player_mappings[r.first_move] = "white"

\* C5 witness: a pairing in which the joiner is white and moves first, and
\* the waiter has returned its half.
C5_Witness ==
    \E i \in MatchIdx :
        /\ matches[i].player2_result.assigned_color = "white"
        /\ matches[i].player2_result.first_move = matches[i].player2_result.player_id
        /\ calls[matches[i].waiter].how = "matched"

\* the identifiers generated for pairing i
IdsOf(i) ==
    {matches[i].player1_result.game_id,
     matches[i].player1_result.player_id,
     matches[i].player2_result.player_id}

\* the halves of pairing i that its invocations have returned
ReturnedHalves(i) ==
    {calls[k].ret : k \in {k \in PairCalls(i) : GotMatch(k)}}

\* C6  Per-perspective result: the halves of one pairing (as created and as
\* returned by the two invocations) have the same game id, first_move and
\* mapping and different player ids, each half's role is the mapping's role
\* of its own player id, the mapping has exactly the two player ids, and no
\* identifier of a pairing was used by an earlier pairing.
C6_PerPerspectiveResult ==
    /\ \A i \in MatchIdx :
          LET r1 == matches[i].player1_result
              r2 == matches[i].player2_result
          IN  /\ ReturnedHalves(i) \subseteq Halves(i)
              /\ r1.game_id = r2.game_id
              /\ r1.first_move = r2.first_move
              /\ r1.player_mappings = r2.player_mappings
              /\ r1.player_id # r2.player_id
              /\ DOMAIN r1.player_mappings = {r1.player_id, r2.player_id}
              /\ \A r \in Halves(i) :
                    r.assigned_color = r.player_mappings[r.player_id]
              /\ \A k1, k2 \in PairCalls(i) :
                    (k1 # k2 /\ GotMatch(k1) /\ GotMatch(k2)) =>
                        calls[k1].ret.player_id # calls[k2].ret.player_id
    /\ \A i, j \in MatchIdx : i < j => IdsOf(i) \cap IdsOf(j) = {}

\* C6 witness: two pairings, all four invocations have returned their half.
C6_Witness ==
    /\ Len(matches) = 2
    /\ \A i \in MatchIdx : \A k \in PairCalls(i) : GotMatch(k)

(***************************************************************************)
(* Properties of the auth tokens.                                          *)
(***************************************************************************)
IssueIdx == 1..Len(issued)

\* the generate_auth_token calls made for the pair (g, p)
IssuesFor(g, p) ==
    {i \in IssueIdx : issued[i].game_id = g /\ issued[i].player_id = p}

\* the token most recently issued for (g, p)
LastIssued(g, p) ==
    LET is == IssuesFor(g, p)
    IN  issued[CHOOSE i \in is : \A j \in is : j <= i].auth_token

\* C7  Token scoping: a token returned by generate_auth_token(G1, P) does not
\* validate for (G2, P) with G2 # G1 nor for (G1, Q) with Q # P.
C7_TokenScoping ==
    \A i \in IssueIdx : \A g \in GameIds, p \in PlayerIds :
        (\/ g # issued[i].game_id /\ p = issued[i].player_id
         \/ g = issued[i].game_id /\ p # issued[i].player_id) =>
            ~validate_auth_token(g, p, issued[i].auth_token)

\* C7 witness: tokens are stored for (G1, P), (G2, P) and (G1, Q), and the
\* token of (G1, P) validates for (G1, P).
C7_Witness ==
    \E i \in IssueIdx :
        LET g1 == issued[i].game_id
            P == issued[i].player_id
        IN  /\ validate_auth_token(g1, P, issued[i].auth_token)
            /\ \E g2 \in GameIds \ {g1} : IssuesFor(g2, P) # {}
            /\ \E Q \in PlayerIds \ {P} : IssuesFor(g1, Q) # {}

OneOfTwoDisconnected(g) ==
    /\ sessions[g].exists
    /\ Len(sessions[g].player_connections) = 2
    /\ Len(sessions[g].disconnected_players) = 1

\* the participant of g that is not disconnected, in that case
ConnectedOne(g) ==
    CHOOSE p \in DictKeys(sessions[g].player_connections) :
        ~DictHas(sessions[g].disconnected_players, p)

\* seconds since the disconnect, in that case
Elapsed(g) == now - sessions[g].disconnected_players[1][2]

\* Forfeit timing without the "exactly once": before the grace period has
\* elapsed a forfeit check yields nothing, from then on it yields a forfeit
\* in favor of the connected participant.
ForfeitTiming ==
    \A g \in SessGames :
        OneOfTwoDisconnected(g) =>
            /\ (Elapsed(g) < forfeit_timeout =>
                    /\ check_forfeit(sessions[g], now)[1] = NoOutcome
                    /\ \A e \in sweep_events(now) : e.game_id # g)
            /\ (Elapsed(g) >= forfeit_timeout =>
                    /\ check_forfeit(sessions[g], now)[1] = ForfeitTo(ConnectedOne(g))
                    /\ [game_id |-> g, status |-> "forfeit",
                        winner |-> ConnectedOne(g)] \in sweep_events(now))

\* C10  Forfeit timing: for a session of two participants with exactly one
\* disconnected, a forfeit check before the grace period has elapsed yields
\* no outcome, a check at or after it yields a forfeit in favor of the other
\* participant, and the sweeps report that forfeit once only.
C10_ForfeitTimingOnce ==
    /\ ForfeitTiming
    /\ \A g \in SessGames : forfeit_reports[g] <= 1

(***************************************************************************)
(* The server: tokens on make_move and get_board.                          *)
(***************************************************************************)
\* the step answers connection c with one error and changes nothing else of
\* the games, the bindings, the sessions and the turn clocks
AnsweredWithErrorOnly(c) ==
    /\ sent' = {[to |-> c, type |-> "error", ok |-> TRUE]}
    /\ games' = games
    /\ game_creation_times' = game_creation_times
    /\ move_start_times' = move_start_times
    /\ active_connections' = active_connections
    /\ connection_metadata' = connection_metadata
    /\ handler' = handler
    /\ sessions' = sessions
    /\ connection_to_game' = connection_to_game
    /\ auth_tokens' = auth_tokens

\* C9  Token required: a make_move or get_board message that lacks a required
\* field, or whose token is not the one stored for its (game_id, player_id)
\* pair, is answered with an error to its sender only; no move is applied,
\* no connection is bound to a game, no session is touched and no turn-clock
\* entry changes.
C9_TokenRequired ==
    [][(received'.type \in {"make_move", "get_board"} /\ ~received'.authorized)
          => AnsweredWithErrorOnly(received'.conn)]_vars

\* C9 witness: a connection bound to no game has just been answered with an
\* error to a message without the stored token, while a game with a session,
\* a token and a running turn clock exists.
C9_Witness ==
    \E c \in SessConns, g \in GameIds :
        /\ received.conn = c
        /\ ~received.authorized
        /\ sent = {[to |-> c, type |-> "error", ok |-> TRUE]}
        /\ connection_metadata[c].present
        /\ connection_metadata[c].game_id = 0
        /\ games[g].exists
        /\ sessions[g].exists
        /\ \E p \in PlayerIds :
              auth_tokens[g][p] # NoToken /\ move_start_times[g][p] # NoTime

(***************************************************************************)
(* The session manager: all participants disconnected, and reconnection.   *)
(***************************************************************************)
\* every participant of the session of g is disconnected
AllDisconnected(g) ==
    /\ sessions[g].exists
    /\ sessions[g].player_connections # <<>>
    /\ DictKeys(sessions[g].disconnected_players) =
          DictKeys(sessions[g].player_connections)

\* C11  Cancellation precedence: whenever every participant of a session is
\* disconnected, a forfeit evaluation (the one of handle_disconnect, a direct
\* check_forfeit, the sweep) yields cancelled and never forfeit, however long
\* each participant has been disconnected; no winner is declared who is
\* itself disconnected.
C11_CancellationPrecedence ==
    \A g \in SessGames :
        AllDisconnected(g) =>
            /\ check_forfeit(sessions[g], now)[1] = Cancelled
            /\ \A e \in sweep_events(now) :
                  e.game_id = g => e.status = "cancelled"
            /\ disconnect_info.game_id = g =>
                  /\ disconnect_info.status = "cancelled"
                  /\ disconnect_info.winner = 0

\* participant p of game g is on record as having reconnected before the
\* grace period had elapsed, and has not disconnected since
ReconnectedInTime(g, p) ==
    /\ reconnect_log[g][p] # NoReconnect
    /\ reconnect_log[g][p].reconnected_at - reconnect_log[g][p].disconnected_at
          < forfeit_timeout

\* the outcome declares a forfeit that p loses
ForfeitAgainst(outcome, p) == outcome.kind = "forfeit" /\ outcome.winner # p

\* C12  Reconnection clears timer: if participant P disconnects and then
\* reconnects before the grace period elapses, P's disconnect timestamp is
\* absent from the session, and a forfeit check at any later time (in
\* check_forfeit, the sweep or a handle_disconnect) declares no forfeit
\* against P, unless P disconnects again.
C12_ReconnectionClearsTimer ==
    \A g \in SessGames : \A p \in PlayersOf(g) :
        ReconnectedInTime(g, p) =>
            /\ sessions[g].exists
            /\ ~DictHas(sessions[g].disconnected_players, p)
            /\ ~ForfeitAgainst(check_forfeit(sessions[g], now)[1], p)
            /\ \A e \in sweep_events(now) :
                  e.game_id = g => ~(e.status = "forfeit" /\ e.winner # p)
            /\ disconnect_info.game_id = g =>
                  ~(disconnect_info.status = "forfeit" /\ disconnect_info.winner # p)

\* C12 witness: a participant of a session of two reconnected some time
\* after disconnecting and before the deadline, the deadline of that
\* disconnect has passed since, and a forfeit check now yields nothing.
C12_Witness ==
    \E g \in SessGames : \E p \in PlayersOf(g) :
        /\ ReconnectedInTime(g, p)
        /\ Len(sessions[g].player_connections) = 2
        /\ reconnect_log[g][p].reconnected_at > reconnect_log[g][p].disconnected_at
        /\ now >= reconnect_log[g][p].disconnected_at + forfeit_timeout
        /\ check_forfeit(sessions[g], now)[1] = NoOutcome

(***************************************************************************)
(* The server: the per-move time limit.                                    *)
(***************************************************************************)
\* the player of game g whose turn it is (0 if none)
Mover(g) == player_with_color(games[g], games[g].turn)

\* a maximum think-time is configured and more than it has elapsed since the
\* recorded start of p's turn in game g
ThinkTimeExceeded(g, p) ==
    /\ SERVER_SEARCH_TIME # NoLimit
    /\ p # 0
    /\ move_start_times[g][p] # NoTime
    /\ now - move_start_times[g][p] > SERVER_SEARCH_TIME

\* the messages of a type sent in the step to connections bound to game g
SentForGame(g, type) ==
    {m \in sent' : m.type = type /\ connection_metadata[m.to].game_id = g}

\* C13  Disqualification blocks the move: when a maximum think-time is
\* configured and the mover's elapsed time since its recorded turn start
\* exceeds it, no step applies a move to the board of the game (position and
\* side to move are unchanged) and no move_made is broadcast for it.
C13_DisqualificationBlocksMove ==
    [][\A g \in GameIds :
          (games[g].exists /\ ThinkTimeExceeded(g, Mover(g))) =>
              /\ games'[g] = games[g]
              /\ SentForGame(g, "move_made") = {}]_vars

\* C13 witness: a make_move with the stored token has just been answered
\* with game_over while a limit is configured: the board of the game is
\* still in its starting position and the turn clocks of the game are gone.
C13_Witness ==
    \E g \in GameIds, c \in SessConns :
        /\ SERVER_SEARCH_TIME # NoLimit
        /\ received = [conn |-> c, type |-> "make_move", authorized |-> TRUE]
        /\ connection_metadata[c].game_id = g
        /\ [to |-> c, type |-> "game_over", ok |-> TRUE] \in sent
        /\ games[g] = ChessBoard(games[g].player_mappings)
        /\ \A p \in PlayerIds : move_start_times[g][p] = NoTime
        /\ ~sessions[g].exists

\* a make_move with the stored token has just been answered with a
\* game_over for game g: the disqualification broadcast
DisqualifiedNow(g) ==
    /\ received.type = "make_move"
    /\ received.authorized
    /\ connection_metadata[received.conn].game_id = g
    /\ \E m \in sent : m.type = "game_over"

\* the connections bound to game g whose client end is open
LiveConnections(g) ==
    {c \in active_connections :
        connection_metadata[c].game_id = g /\ peer_alive[c]}

\* C14  Disqualification exclusivity: when a configured think-time is
\* exceeded, the game_over of the disqualification reaches each live
\* connection of the game, and over the whole remaining lifetime of the game
\* no connection is sent a second one (no second disqualification broadcast
\* for the same game).
C14_DisqualificationExclusivity ==
    /\ \A g \in GameIds :
          DisqualifiedNow(g) =>
              \A c \in LiveConnections(g) :
                  [to |-> c, type |-> "game_over", ok |-> TRUE] \in sent
    /\ \A c \in SessConns : game_over_log[c] <= 1

\* a game_over of a disqualification has been issued for game g
Disqualified(g) ==
    \E c \in SessConns :
        connection_metadata[c].game_id = g /\ game_over_log[c] > 0

\* C15  Disqualification is terminal for the game: after a game_over of a
\* disqualification has been issued for game G, the session of G is removed
\* and G's turn-clock entries are cleared, and no later make_move for G is
\* applied to the board or broadcast as move_made.
C15_DisqualificationTerminal ==
    [][\A g \in GameIds :
          Disqualified(g) =>
              /\ ~sessions[g].exists
              /\ \A p \in PlayerIds : move_start_times[g][p] = NoTime
              /\ games'[g] = games[g]
              /\ SentForGame(g, "move_made") = {}]_vars

(***************************************************************************)
(* The server: sessions of matched games.                                  *)
(***************************************************************************)
\* the handler of connection c has processed a match result for game g and
\* waits for the next message
Processed(c, g) == handler[c].pc = "recv" /\ handler[c].game_id = g

\* C16  GameSession participant set: after both matched connections have
\* processed their match result, the session registered for the game has
\* exactly the two participant ids of the match as its participant set,
\* whichever order the two handlers ran in.
C16_SessionParticipantSet ==
    \A g \in GameIds : \A c1, c2 \in SessConns :
        (/\ Processed(c1, g) /\ Processed(c2, g)
         /\ handler[c1].player_id # handler[c2].player_id
         /\ sessions[g].exists) =>
            DictKeys(sessions[g].player_connections) =
                {handler[c1].player_id, handler[c2].player_id}

\* the step is the handler of c finding its connection closed, c and d are
\* the connections of the two participants of game g, nobody of g has
\* disconnected before and d stays connected
OneOfTwoLeaves(c, d, g) ==
    /\ c # d
    /\ Processed(c, g) /\ Processed(d, g)
    /\ handler[c].player_id # handler[d].player_id
    /\ handler'[c].pc = "ended"
    /\ sessions[g].exists /\ sessions[g].disconnected_players = <<>>
    /\ d \in active_connections /\ peer_alive[d]

\* a game_over that is no disqualification is sent in the step to a
\* connection bound to game g
GameOverSent(g) ==
    /\ received'.type # "make_move"
    /\ \E m \in sent' : m.type = "game_over" /\ connection_metadata[m.to].game_id = g

\* game g has a session in which somebody has been disconnected for less
\* than the grace period and somebody is not disconnected
GraceRunning(g) ==
    /\ sessions[g].exists
    /\ Len(sessions[g].disconnected_players) < Len(sessions[g].player_connections)
    /\ \E i \in DOMAIN sessions[g].disconnected_players :
          ~timed_out(now, sessions[g].disconnected_players[i][2])

\* C17  Grace period on disconnect: when exactly one of the two matched
\* participants' connections disconnects while the other stays connected,
\* the disconnect is reported as status disconnected, the opponent's
\* connection is sent opponent_disconnected, and no game_over (forfeit or
\* cancelled) is sent for the game before the grace period has elapsed.
C17_GracePeriodOnDisconnect ==
    [][\A g \in GameIds :
          /\ \A c, d \in SessConns :
                OneOfTwoLeaves(c, d, g) =>
                    /\ disconnect_info'.status = "disconnected"
                    /\ disconnect_info'.game_id = g
                    /\ [to |-> d, type |-> "opponent_disconnected", ok |-> TRUE]
                          \in sent'
                    /\ ~GameOverSent(g)
          /\ GraceRunning(g) => ~GameOverSent(g)]_vars

\* the connection of one participant of game g was lost, the grace period
\* has passed since, and the other participant is still connected on d
ForfeitDue(d, g) ==
    /\ OpponentLost(d)
    /\ handler[d].game_id = g
    /\ ticks > 0

\* the handler's last step got a forfeit in favor of the participant on d
\* from the session manager, sent game_over to d and removed the session
ForfeitDelivered(d, g) ==
    /\ disconnect_info.status = "forfeit"
    /\ disconnect_info.game_id = g
    /\ disconnect_info.winner = handler[d].player_id
    /\ [to |-> d, type |-> "game_over", ok |-> TRUE] \in sent
    /\ ~sessions[g].exists

\* C18  Forfeit is eventually delivered: after a match, if participant P1
\* disconnects and stays disconnected while P2 stays connected, then once
\* the grace period has elapsed P2 eventually receives the game_over of the
\* forfeit with itself as winner and the session is removed, without any
\* further action of P2.
C18_ForfeitEventuallyDelivered ==
    \A d \in Conns : \A g \in GameIds :
        ForfeitDue(d, g) ~> (ForfeitDelivered(d, g) \/ ~peer_alive[d])

(***************************************************************************)
(* The server: matchmaking scenarios.                                      *)
(***************************************************************************)
\* the match_found messages connection c has been sent for game g
MatchFoundFor(c, g) ==
    {i \in DOMAIN match_found_log[c] : match_found_log[c][i].game_id = g}

\* two match_found messages for the two sides of one game
Complementary(m1, m2) ==
    /\ m1.game_id = m2.game_id
    /\ {m1.assigned_color, m2.assigned_color} = {"white", "black"}
    /\ m1.player_id # m2.player_id
    /\ m1.auth_token # m2.auth_token
    /\ validate_auth_token(m1.game_id, m1.player_id, m1.auth_token)
    /\ validate_auth_token(m2.game_id, m2.player_id, m2.auth_token)
    /\ m1.first_move = m2.first_move
    /\ m1.first_move =
          (IF m1.assigned_color = "white" THEN m1.player_id ELSE m2.player_id)

\* no connection has been sent two match_found messages for a pairing, and
\* the messages of the two connections of a pairing are complementary
MatchFoundOnceAndComplementary ==
    \A i \in MatchIdx :
        LET g == matches[i].player1_result.game_id
            cw == matches[i].waiter_conn
            cj == matches[i].joiner_conn
        IN  /\ Cardinality(MatchFoundFor(cw, g)) <= 1
            /\ Cardinality(MatchFoundFor(cj, g)) <= 1
            /\ \A x \in MatchFoundFor(cw, g) : \A y \in MatchFoundFor(cj, g) :
                  Complementary(match_found_log[cw][x], match_found_log[cj][y])
            /\ \A c \in SessConns \ {cw, cj} : MatchFoundFor(c, g) = {}

\* both connections of pairing i have been sent its match_found
BothToldOf(i) ==
    /\ MatchFoundFor(matches[i].waiter_conn, matches[i].player1_result.game_id) # {}
    /\ MatchFoundFor(matches[i].joiner_conn, matches[i].player1_result.game_id) # {}

\* C19  Scenario A: when two distinct live connections both send join_queue
\* within the timeout window (the second finds the first waiting), each of
\* them receives exactly one match_found; the two messages carry the same
\* game_id, complementary roles, different participant ids with their own
\* tokens, and the same first_move, the participant with the white role.
C19_ScenarioA ==
    /\ []MatchFoundOnceAndComplementary
    /\ \A i \in 1..MaxJoins : (Len(matches) >= i) ~> (Len(matches) >= i /\ BothToldOf(i))

\* C19 witness: the two connections of a pairing have each been sent its
\* match_found, the waiter's after its handler was resumed.
C19_Witness ==
    \E i \in MatchIdx :
        /\ BothToldOf(i)
        /\ matches[i].waiter_conn # matches[i].joiner_conn
        /\ handler[matches[i].waiter_conn].pc = "recv"
        /\ handler[matches[i].joiner_conn].pc = "recv"

\* the handler of c has just sent queue_timeout to c
ToldTimeout(c) == [to |-> c, type |-> "queue_timeout", ok |-> TRUE] \in sent

\* C20  Scenario B: a lone connection that sends join_queue with a finite
\* matchmaking timeout while no other connection joins eventually receives
\* queue_timeout (as long as it stays connected), and the queue slot is
\* empty when it does and stays empty until the next join_queue.
C20_ScenarioB ==
    /\ \A c \in LoneConns :
          (handler[c].pc = "joining" /\ peer_alive[c])
              ~> ((ToldTimeout(c) /\ waiting_player = NoEntry) \/ ~peer_alive[c])
    /\ [](\A c \in LoneConns :
             (handler[c].pc # "joining" /\ calls[1].how = "timeout")
                 => waiting_player = NoEntry)

\* C20 witness: the lone connection, still connected, has just been sent
\* queue_timeout for its join_queue, and the slot is empty.
C20_Witness ==
    \E c \in LoneConns :
        /\ ToldTimeout(c)
        /\ peer_alive[c]
        /\ calls[1].how = "timeout"
        /\ waiting_player = NoEntry
        /\ matches = <<>>

(***************************************************************************)
(* Properties of the ConnectionManager.                                    *)
(***************************************************************************)
\* the registry after the step is the registry before it without c
Unregistered(c) ==
    /\ active_connections' = active_connections \ {c}
    /\ connection_metadata' = [connection_metadata EXCEPT ![c] = NoMeta]

\* C21  send never throws: send_message(c, message) returns false and
\* changes nothing when c is not registered; when delivery fails it
\* unregisters c (from the live connections and the metadata) and returns
\* false; otherwise it delivers the message to exactly c and returns true.
C21_SendNeverThrows ==
    [][\A c \in SessConns :
          SendMessage(c) =>
              /\ cm_call'.kind = "send" /\ cm_call'.to = c
              /\ c \notin active_connections =>
                    /\ ~cm_call'.returned
                    /\ sent' = {}
                    /\ UNCHANGED <<active_connections, connection_metadata>>
              /\ (c \in active_connections /\ ~peer_alive[c]) =>
                    /\ ~cm_call'.returned
                    /\ \A m \in sent' : ~m.ok
                    /\ Unregistered(c)
              /\ (c \in active_connections /\ peer_alive[c]) =>
                    /\ cm_call'.returned
                    /\ sent' = {[to |-> c, type |-> "message", ok |-> TRUE]}
                    /\ UNCHANGED <<active_connections, connection_metadata>>]_vars

\* C21 witness: a send to a registered connection whose client had closed
\* has returned false and unregistered it, while another connection is
\* still registered.
C21_Witness ==
    \E c \in SessConns :
        /\ cm_call.kind = "send" /\ cm_call.to = c /\ ~cm_call.returned
        /\ sent = {[to |-> c, type |-> "message", ok |-> FALSE]}
        /\ c \notin active_connections
        /\ ~connection_metadata[c].present
        /\ active_connections # {}

\* the connections associated with game g, but for the excluded one
AssociatedWith(g, exclude) ==
    {c \in SessConns :
        /\ c \in active_connections
        /\ connection_metadata[c].game_id = g
        /\ c # exclude}

\* C22  Broadcast targets and partial delivery: send_to_game(G, m, exclude)
\* attempts delivery to every connection associated with G at the time of
\* the snapshot except the excluded one, to no connection associated with
\* another game or with none, and a delivery failure (or an unregistration
\* meanwhile) of one recipient does not prevent the attempt to every other
\* recipient.
C22_BroadcastTargets ==
    /\ [][\A g \in GameIds, x \in {0} \cup SessConns :
             SendToGameSnapshot(g, x) =>
                 /\ cm_call'.pending = AssociatedWith(g, x)
                 /\ cm_call'.snapshot = AssociatedWith(g, x)
                 /\ cm_call'.attempted = {}]_vars
    /\ [][SendToGameNext =>
             \E c \in cm_call.pending :
                 /\ cm_call'.attempted = cm_call.attempted \cup {c}
                 /\ cm_call'.pending = cm_call.pending \ {c}
                 /\ c \in active_connections => \E m \in sent' : m.to = c
                 /\ \A m \in sent' : m.to = c]_vars
    /\ [](cm_call.kind = "broadcast" =>
             /\ cm_call.attempted \cup cm_call.pending = cm_call.snapshot
             /\ cm_call.attempted \cap cm_call.pending = {})

\* C22 witness: a broadcast to two connections of a game is complete; the
\* send to the first failed and unregistered it, the second received the
\* message after that, and a connection of another game was left out.
C22_Witness ==
    /\ cm_call.kind = "broadcast" /\ cm_call.pending = {}
    /\ cm_call.attempted = cm_call.snapshot
    /\ cm_call.exclude_connection = 0
    /\ \E c, e \in cm_call.snapshot, o \in active_connections :
          /\ c < e
          /\ c \notin active_connections /\ ~peer_alive[c]
          /\ sent = {[to |-> e, type |-> "message", ok |-> TRUE]}
          /\ connection_metadata[o].game_id \notin {0, cm_call.game_id}
          /\ o \notin cm_call.snapshot

(***************************************************************************)
(* Properties of the server's handling of failed sends and of moves.       *)
(***************************************************************************)
\* connection c is bound to participant p in the session of game g
BoundTo(g, c, p) ==
    /\ sessions[g].exists
    /\ DictHas(sessions[g].player_connections, p)
    /\ DictGet(sessions[g].player_connections, p) = c

\* participant p is marked disconnected in session s, with the time from
\* which the grace period counts
MarkedDisconnected(s, p) ==
    \E i \in DOMAIN s.disconnected_players : s.disconnected_players[i][1] = p

\* send_json to connection c raised in the step
SendFailed(c) == \E m \in sent' : m.to = c /\ ~m.ok

\* C23  Transport failure feeds disconnect handling: when a send to a
\* participant's connection fails, the participant is marked disconnected
\* in its GameSession and the grace timer starts in that step, besides the
\* connection being unregistered from the connection registry.
C23_TransportFailureFeedsDisconnect ==
    [][\A g \in GameIds, c \in SessConns : \A p \in PlayersOf(g) :
          (BoundTo(g, c, p) /\ SendFailed(c) /\ sessions'[g].exists) =>
              /\ c \notin active_connections'
              /\ MarkedDisconnected(sessions'[g], p)]_vars

\* the step applies a move to the board of game g
MoveApplied(g) == games[g].exists /\ games'[g] # games[g]

\* C24  One mutating action per game at a time: over any interleaving of
\* make_move messages from the connections of a game, the turn check and the
\* application of the move are one step, so every applied move was submitted
\* with the credentials of the participant whose colour was to move when it
\* was applied, and it passes the move to the other participant: applied
\* moves alternate strictly between the two participants.
C24_OneMoveAtATime ==
    [][\A g \in GameIds :
          MoveApplied(g) =>
              /\ received'.type = "make_move" /\ received'.authorized
              /\ \E c \in SessConns : \E m \in MoveMessages(c) :
                    /\ MakeMove(c, m)
                    /\ m.game_id = g
                    /\ m.player_id = Mover(g)
                    /\ m.player_id \in PlayersOf(g)
                    /\ get_player_color(games[g], m.player_id) = games[g].turn
              /\ \A c \in SessConns : \A m \in MoveMessages(c) :
                    MakeMove(c, m) =>
                        /\ m.game_id = g
                        /\ get_player_color(games[g], m.player_id) = games[g].turn
              /\ games'[g].turn = other_color(games[g].turn)
              /\ Mover(g)' # Mover(g)
              /\ Mover(g)' \in PlayersOf(g)]_vars

\* C24 witness: black's move has just been applied in a game, after white's,
\* and it is white's turn again.
C24_Witness ==
    \E g \in GameIds :
        /\ games[g].exists /\ games[g].turn = "white"
        /\ received.type = "make_move" /\ received.authorized
        /\ \E m \in sent : m.type = "move_made" /\ m.ok

\* the make_move message m has all its fields and the server rejects it:
\* its game is unknown, or it carries the token of its player and it is not
\* the turn of that player, or the rules engine finds the move illegal in
\* the position (which the server asks once the turn and the think-time
\* have passed their checks)
RejectedMove(m) ==
    /\ m.move # "" /\ m.game_id # Missing /\ m.player_id # Missing
    /\ m.auth_token # Missing
    /\ \/ ~games[m.game_id].exists
       \/ /\ TokenValidates(m)
          /\ games[m.game_id].exists
          /\ Mover(m.game_id) # m.player_id
       \/ /\ TokenValidates(m)
          /\ games[m.game_id].exists
          /\ Mover(m.game_id) = m.player_id
          /\ ~ThinkTimeExceeded(m.game_id, m.player_id)
          /\ (m.move = "illegal" \/ games[m.game_id].over)

\* C25  Rejected actions leave the game untouched: a make_move that is
\* rejected for wrong turn, unknown game or illegal move produces an error
\* to the originating connection only, leaves the board position and side
\* to move unchanged, leaves the session and every turn-clock start time
\* unchanged, and terminates neither the connection nor the game.
C25_RejectedMoveLeavesGame ==
    [][\A c \in SessConns : \A m \in MoveMessages(c) :
          (MakeMove(c, m) /\ RejectedMove(m)) =>
              /\ sent' = {[to |-> c, type |-> "error", ok |-> TRUE]}
              /\ UNCHANGED <<games, game_creation_times>>
              /\ UNCHANGED <<sessions, connection_to_game>>
              /\ UNCHANGED move_start_times
              /\ UNCHANGED <<active_connections, connection_metadata>>
              /\ c \in active_connections'
              /\ handler'[c] = handler[c] /\ handler'[c].pc = "recv"]_vars

\* C25 witness: a move with the token of its player has been answered with
\* an error alone, in a game whose session exists and in which the clock of
\* the player to move is running.
C25_Witness ==
    \E g \in GameIds :
        /\ received.type = "make_move" /\ received.authorized
        /\ sent = {[to |-> received.conn, type |-> "error", ok |-> TRUE]}
        /\ games[g].exists /\ sessions[g].exists
        /\ handler[received.conn].game_id = g
        /\ Mover(g) # 0
        /\ move_start_times[g][Mover(g)] # NoTime

\* the step leaves what the server holds of game g as it is: its board, its
\* session, the connections mapped to it, its turn clocks and its tokens
GameUntouched(g) ==
    /\ games'[g] = games[g]
    /\ sessions'[g] = sessions[g]
    /\ \A d \in SessConns :
          connection_to_game[d] = g => connection_to_game'[d] = g
    /\ move_start_times'[g] = move_start_times[g]
    /\ auth_tokens'[g] = auth_tokens[g]

\* C26  Cross-game isolation: a make_move processed for game G1 (applied,
\* rejected or ending in a disqualification) leaves the board, session,
\* reverse connection mappings, turn-clock entries and tokens of every other
\* game G2 unchanged and sends nothing to connections associated only with
\* G2.
C26_CrossGameIsolation ==
    [][\A c \in Conns : \A m \in RematchMoves(c) :
          MakeMove(c, m) =>
              \A g2 \in GameIds \ {m.game_id} :
                  /\ GameUntouched(g2)
                  /\ \A x \in sent' :
                        x.to = c \/ connection_metadata[x.to].game_id # g2]_vars

(***************************************************************************)
(* Properties of the matchmaking queue: the second joiner, leaving, and    *)
(* finished waiters.                                                       *)
(***************************************************************************)
\* the slot holds the entry of a connection other than c whose pending
\* result is unfulfilled
OtherWaits(c) ==
    /\ waiting_player # NoEntry
    /\ waiting_player.connection_id # c
    /\ future[waiting_player.future].state = "pending"

\* C27  Second joiner is served immediately: when join_queue finds a
\* different connection waiting with an unfulfilled pending result, in one
\* exclusive step it creates one match, fulfills the waiter's pending
\* result with the waiter's half, clears the slot and returns the joiner's
\* half without blocking; the waiter's blocked join, when it returns,
\* returns that half (same game id) and not a timeout.
C27_SecondJoinerServed ==
    /\ [][\A k \in Calls, c \in Conns :
             (JoinQueue(k, c) /\ OtherWaits(c)) =>
                 LET w == waiting_player.future
                     m == matches'[Len(matches')]
                 IN  /\ Len(matches') = Len(matches) + 1
                     /\ m.waiter = w /\ m.joiner = k
                     /\ future'[w] = FutureResult(m.player1_result)
                     /\ waiting_player' = NoEntry
                     /\ calls'[k].pc = "done"
                     /\ calls'[k].ret = m.player2_result
                     /\ m.player1_result.game_id = m.player2_result.game_id
                     /\ m.player1_result.game_id # 0
                     /\ m.player1_result.player_id # m.player2_result.player_id
                     /\ \A j \in Calls \ {k} : calls'[j] = calls[j]
                     /\ \A j \in Calls \ {w} : future'[j] = future[j]]_vars
    /\ [][\A i \in DOMAIN matches :
             LET w == matches[i].waiter
             IN  calls'[w] # calls[w] =>
                     /\ calls[w].pc = "waiting"
                     /\ calls'[w].pc = "done"
                     /\ calls'[w].how = "matched"
                     /\ calls'[w].ret = matches[i].player1_result
                     /\ calls'[w].ret.game_id = calls[matches[i].joiner].ret.game_id]_vars

\* C27 witness: a second joiner was served and the waiter's join has
\* returned its half of the same game afterwards.
C27_Witness ==
    \E i \in DOMAIN matches :
        /\ calls[matches[i].waiter].pc = "done"
        /\ calls[matches[i].waiter].how = "matched"
        /\ calls[matches[i].joiner].pc = "done"
        /\ calls[matches[i].waiter].ret.game_id
              = calls[matches[i].joiner].ret.game_id
        /\ calls[matches[i].waiter].ret.player_id
              # calls[matches[i].joiner].ret.player_id
        /\ waiting_player = NoEntry

\* the slot holds a waiting entry of connection c
HeldBy(c) == waiting_player # NoEntry /\ waiting_player.connection_id = c

\* C28  leave: remove_from_queue(c) when the slot holds a waiting entry of c
\* cancels its pending result, clears the slot and returns true, the
\* blocked join of c then returns no match, and a later join by another
\* connection becomes the new waiter; when the slot is empty or held by
\* another connection it returns false and leaves the slot and that
\* waiter's pending result unchanged.
C28_Leave ==
    /\ [][\A c \in Conns :
             RemoveFromQueue(c) =>
                 IF HeldBy(c)
                 THEN /\ remove_from_queue_returns(c)
                      /\ waiting_player' = NoEntry
                      /\ future[waiting_player.future].state = "pending" =>
                            future'[waiting_player.future].state = "cancelled"
                      /\ \A j \in Calls \ {waiting_player.future} :
                            future'[j] = future[j]
                 ELSE /\ ~remove_from_queue_returns(c)
                      /\ UNCHANGED <<waiting_player, future>>]_vars
    /\ [][\A k \in Calls :
             (/\ calls[k].pc = "waiting" /\ future[k].state = "cancelled"
              /\ calls'[k] # calls[k]) =>
                 calls'[k].pc = "done" /\ calls'[k].ret = NoResult]_vars
    /\ [][\A k \in Calls, d \in Conns :
             (JoinQueue(k, d) /\ waiting_player = NoEntry) =>
                 /\ waiting_player' = QueueEntry(d, k)
                 /\ future'[k].state = "pending"
                 /\ calls'[k].pc = "waiting"]_vars

\* C28 witness: the waiting entry of one connection was removed, its join is
\* about to return no match, and another connection that joined afterwards
\* is the new waiter.
C28_Witness ==
    \E k, j \in Calls :
        /\ calls[k].pc = "waiting" /\ future[k].state = "cancelled"
        /\ k < j
        /\ waiting_player = QueueEntry(calls[j].conn, j)
        /\ calls[j].conn \notin {0, calls[k].conn}
        /\ calls[j].pc = "waiting" /\ future[j].state = "pending"

\* the join_queue call k is blocked in wait_for on the future of its entry
Blocked(k) == calls[k].pc = "waiting"

\* C29  No pairing with a finished waiter: a joiner is never matched against
\* a waiting entry whose join call has already returned or stopped waiting
\* (by timeout, cancellation or withdrawal); whenever the slot holds an
\* entry whose pending result is unfulfilled, the join call that created
\* that entry is still blocked waiting on it.
C29_NoFinishedWaiter ==
    /\ [](waiting_player # NoEntry =>
             (future[waiting_player.future].state = "pending" =>
                 /\ Blocked(waiting_player.future)
                 /\ calls[waiting_player.future].conn
                       = waiting_player.connection_id))
    /\ [][Len(matches') > Len(matches) =>
             LET m == matches'[Len(matches')]
             IN  /\ Blocked(m.waiter)
                 /\ calls[m.waiter].conn = m.waiter_conn
                 /\ calls[m.waiter].how = "-"]_vars

\* C29 witness: a join call returned while its entry was in the slot
\* (its task was cancelled), and a later joiner has been matched, with a
\* waiter that came after it.
C29_Witness ==
    \E k \in Calls, i \in DOMAIN matches :
        /\ calls[k].pc = "done" /\ calls[k].how = "cancelled"
        /\ k < matches[i].waiter
        /\ matches[i].waiter < matches[i].joiner

(***************************************************************************)
(* Properties of the bindings of connections to participants.              *)
(***************************************************************************)
\* connection c was paired as participant p of game g: its join_queue call
\* got the half of the match result that names p
MatchedAs(c, p, g) ==
    \E i \in DOMAIN matches :
        \/ /\ matches[i].waiter_conn = c
           /\ matches[i].player1_result.game_id = g
           /\ matches[i].player1_result.player_id = p
        \/ /\ matches[i].joiner_conn = c
           /\ matches[i].player2_result.game_id = g
           /\ matches[i].player2_result.player_id = p

\* connection c has presented the token of participant p of game g
ReconnectedAs(c, p, g) ==
    /\ handler[c].game_id = g /\ handler[c].player_id = p
    /\ auth_tokens[g][p] # NoToken

\* C30  Session bindings come from the match: in every reachable state, each
\* connection id bound to a participant in a GameSession is the connection
\* of that same participant (its original matched connection or a
\* connection it reconnected on with its token); a third connection that
\* joins the queue right after the pairing is never bound to a participant
\* of that game.
C30_SessionBindings ==
    \A g \in GameIds : \A i \in DOMAIN sessions[g].player_connections :
        LET p == sessions[g].player_connections[i][1]
            c == sessions[g].player_connections[i][2]
        IN  MatchedAs(c, p, g) \/ ReconnectedAs(c, p, g)

(***************************************************************************)
(* Properties of the session manager: disconnects, reconnects and the      *)
(* reverse index.                                                          *)
(***************************************************************************)
\* the disconnect times recorded for participant p in session s
DisconnectTimes(s, p) ==
    {s.disconnected_players[i][2] :
        i \in {i \in DOMAIN s.disconnected_players :
                  s.disconnected_players[i][1] = p}}

\* connection c is mapped to game g, whose session binds participant p to c
\* and has p marked disconnected already
DisconnectedAlready(c, g, p) ==
    /\ connection_to_game[c] = g
    /\ sessions[g].exists
    /\ player_of_connection(sessions[g], c) = p
    /\ DisconnectTimes(sessions[g], p) # {}

\* C31  Re-disconnection does not reset the timer: marking an already
\* disconnected participant as disconnected again leaves its recorded
\* disconnect time unchanged, so the forfeit deadline remains the first
\* observed disconnect time plus the grace period.
C31_RedisconnectKeepsTime ==
    [][\A c \in SessConns, g \in GameIds, p \in PlayerIds :
          (HandleDisconnect(c) /\ DisconnectedAlready(c, g, p)) =>
              /\ DisconnectTimes(sessions'[g], p) = DisconnectTimes(sessions[g], p)
              /\ disconnect_info'.disconnected_player_id = p
              /\ (\A q \in PlayerIds : \A t \in DisconnectTimes(sessions[g], q) :
                     now < t + forfeit_timeout)
                    => disconnect_info'.status # "forfeit"
              /\ (/\ \E t \in DisconnectTimes(sessions[g], p) :
                        now >= t + forfeit_timeout
                  /\ Len(sessions[g].player_connections) > 1)
                    => disconnect_info'.status = "forfeit"]_vars

\* C31 witness: handle_disconnect has just reported a participant whose
\* recorded disconnect time lies in the past: the participant was marked
\* before and the time of the first mark was kept.
C31_Witness ==
    \E g \in GameIds :
        /\ disconnect_info.status = "disconnected"
        /\ disconnect_info.game_id = g
        /\ \E t \in DisconnectTimes(sessions[g], disconnect_info.disconnected_player_id) :
              t < now

\* connection c is bound to no participant of any session
InNoSession(c) ==
    \A g \in GameIds :
        sessions[g].exists => c \notin DictValues(sessions[g].player_connections)

\* C32  handle_disconnect of a connection that is in no tracked session
\* (never matched, still in the queue, or its session already removed)
\* returns nothing and leaves every session, every disconnect timestamp and
\* the reverse index unchanged.
C32_DisconnectOfUntracked ==
    [][\A c \in SessConns :
          (Disconnected(c) /\ InNoSession(c)) =>
              /\ disconnect_info' = NoInfo
              /\ UNCHANGED <<sessions, connection_to_game>>]_vars

\* C32 witness: the handler of a connection that was matched into a game
\* has ended after its socket closed, the session of the game exists
\* without the connection, which the reverse index still maps to the game,
\* and nothing was returned or marked.
C32_Witness ==
    \E c \in SessConns, g \in GameIds :
        /\ handler[c].pc = "ended" /\ handler[c].game_id = g
        /\ handler[c].player_id # 0
        /\ disconnect_info = NoInfo
        /\ connection_to_game[c] = g
        /\ sessions[g].exists /\ sessions[g].disconnected_players = <<>>
        /\ InNoSession(c)

\* the state handle_reconnect(c, g, p) leaves when it succeeds: p is bound to
\* c in the session of g, the reverse index maps c to g and p has no
\* disconnect marker
Rebound(c, g, p) ==
    /\ sessions[g].exists
    /\ DictHas(sessions[g].player_connections, p)
    /\ DictGet(sessions[g].player_connections, p) = c
    /\ connection_to_game[c] = g
    /\ DisconnectTimes(sessions[g], p) = {}

\* C33  handle_reconnect fails without changing any state when the session
\* no longer exists, and is idempotent: a call with the same (new
\* connection, game, participant) in the state a successful call has left
\* changes neither the session bindings nor the reverse index nor the
\* disconnect markers.
C33_ReconnectIdempotent ==
    [][\A c \in SessConns, g \in SessGames : \A p \in PlayersOf(g) :
          HandleReconnect(c, g, p) =>
              /\ ~sessions[g].exists => UNCHANGED <<sessions, connection_to_game>>
              /\ sessions[g].exists => Rebound(c, g, p)'
              /\ Rebound(c, g, p) => UNCHANGED <<sessions, connection_to_game>>]_vars

\* C33 witness: a participant that was disconnected has reconnected on a
\* third connection; the state is the one a second call with the same
\* arguments starts from.
C33_Witness ==
    \E g \in SessGames : \E p \in PlayersOf(g) :
        /\ Rebound(3, g, p)
        /\ reconnect_log[g][p].reconnected_at = now
        /\ Len(sessions[g].player_connections) = 2

\* handle_disconnect(c), run on sessions ss and reverse index cg, returns a
\* result that names p as the disconnected player of g and leaves p with a
\* disconnect marker
WouldMark(ss, cg, c, g, p) ==
    LET out == disconnect_result(ss, cg, c, now)
    IN  /\ out[1] # NoInfo
        /\ out[1].game_id = g
        /\ out[1].disconnected_player_id = p
        /\ DisconnectTimes(out[2][g], p) # {}

\* handle_disconnect(c), run on sessions ss and reverse index cg, returns
\* nothing and leaves the sessions as they are
WouldIgnore(ss, cg, c) == disconnect_result(ss, cg, c, now) = <<NoInfo, ss>>

\* p is bound to connection old in the session of g
PreviouslyOn(old, g, p) ==
    /\ DictHas(sessions[g].player_connections, p)
    /\ DictGet(sessions[g].player_connections, p) = old

\* no other participant of g is bound to connection c
NewConnection(c, g, p) ==
    \A i \in DOMAIN sessions[g].player_connections :
        sessions[g].player_connections[i][2] = c =>
            sessions[g].player_connections[i][1] = p

C35_ReverseIndexConsistent ==
    \A c \in SessConns :
        connection_to_game[c] # 0 =>
            /\ sessions[connection_to_game[c]].exists
            /\ c \in DictValues(sessions[connection_to_game[c]].player_connections)

(***************************************************************************)
(* Properties of the turn clocks.                                          *)
(***************************************************************************)
\* the make_move message m reaches the time check with a recorded start
\* time, and no more than the configured maximum has elapsed since
WithinLimit(m) ==
    /\ move_fields_present(m)
    /\ validate_auth_token(m.game_id, m.player_id, m.auth_token)
    /\ games[m.game_id].exists
    /\ is_players_turn(games[m.game_id], m.player_id)
    /\ SERVER_SEARCH_TIME # NoLimit
    /\ move_start_times[m.game_id][m.player_id] # NoTime
    /\ now - move_start_times[m.game_id][m.player_id] <= SERVER_SEARCH_TIME

\* the roles of p and q in the board are white and black, one each
OppositeRoles(b, p, q) ==
    {get_player_color(b, p), get_player_color(b, q)} = {"white", "black"}

\* C36  Think-time limit is strict and the winner is the role complement: a
\* mover is disqualified only when the elapsed time is strictly greater than
\* the configured maximum (a move at or below the limit proceeds), and the
\* declared winner of a disqualification is the participant of the same
\* game holding the opposite role, never the mover.
C36_StrictLimitAndWinner ==
    /\ [](game_over_msg # NoGameOver =>
             /\ game_over_msg.move_duration > SERVER_SEARCH_TIME
             /\ game_over_msg.winner # game_over_msg.disqualified_player
             /\ OppositeRoles(games[game_over_msg.game_id],
                              game_over_msg.winner,
                              game_over_msg.disqualified_player))
    /\ [][\A c \in Conns : \A m \in MoveMessages(c) :
             (MakeMove(c, m) /\ WithinLimit(m)) =>
                 /\ game_over_msg' = game_over_msg
                 /\ \A x \in sent' : x.type # "game_over"
                 /\ sessions' = sessions
                 /\ move_accepted(games[m.game_id], m.move) =>
                       games'[m.game_id] = pushed(games[m.game_id], m.move)]_vars

\* C36 witness: the white player of a game moved when exactly the maximum
\* had elapsed and the move was applied; the black player then moved later
\* than the maximum allows and was disqualified, with the white player
\* declared the winner.
C36_Witness ==
    \E g \in GameIds : \E w, b \in PlayersOf(g) :
        /\ get_player_color(games[g], w) = "white"
        /\ get_player_color(games[g], b) = "black"
        /\ games[g].turn = "black"
        /\ game_over_msg = [game_id |-> g, winner |-> w,
                            disqualified_player |-> b,
                            move_duration |-> SearchLimit + 1]
        /\ now = 2 * SearchLimit + 1

\* the step sends match_found to connection c
MatchFoundSentTo(c) ==
    \E x \in sent' : x.to = c /\ x.type = "match_found"

\* the turn clocks of the step differ from those before it at most in the
\* entry of player p of game g
ClocksChangeOnlyFor(g, p) ==
    \A h \in GameIds, q \in PlayerIds :
        <<h, q>> # <<g, p>> => move_start_times'[h][q] = move_start_times[h][q]

\* the make_move message m carries all fields and a valid token for a game
\* that has a board
WellFormedMove(m) ==
    /\ move_fields_present(m)
    /\ validate_auth_token(m.game_id, m.player_id, m.auth_token)
    /\ games[m.game_id].exists

\* the step disqualifies nobody: no game_over is sent, no session is removed
NobodyDisqualified ==
    /\ \A x \in sent' : x.type # "game_over"
    /\ sessions' = sessions

\* C37  Turn-clock bookkeeping: a start time is recorded for the
\* first-to-act participant at match time and, after every applied move
\* that does not end the game, for the participant who is then to move, and
\* for nobody when the move ends the game or no maximum is configured; a
\* mover with no recorded start time, and an out-of-turn sender, is never
\* disqualified.
C37_TurnClockBookkeeping ==
    [][/\ \A c \in {x.to : x \in sent'} :
             MatchFoundSentTo(c) =>
                 LET g == handler'[c].game_id
                     first == player_with_color(games'[g], "white")
                 IN  IF SERVER_SEARCH_TIME # NoLimit
                     THEN /\ move_start_times'[g][first] = now
                          /\ ClocksChangeOnlyFor(g, first)
                     ELSE move_start_times' = move_start_times
       /\ received'.type = "make_move" =>
           \A m \in MoveMessages(received'.conn) :
             (WellFormedMove(m) /\ MakeMove(received'.conn, m)) =>
                 LET g == m.game_id
                     next == player_with_color(games'[g], games'[g].turn)
                 IN  /\ (games'[g] # games[g] /\ SERVER_SEARCH_TIME # NoLimit
                             /\ ~games'[g].over) =>
                            /\ move_start_times'[g][next] = now
                            /\ ClocksChangeOnlyFor(g, next)
                     /\ (games'[g] # games[g]
                             /\ (SERVER_SEARCH_TIME = NoLimit \/ games'[g].over)) =>
                            move_start_times' = move_start_times
                     /\ ~is_players_turn(games[g], m.player_id) =>
                            /\ NobodyDisqualified
                            /\ move_start_times' = move_start_times
                     /\ move_start_times[g][m.player_id] = NoTime =>
                            NobodyDisqualified]_vars

\* C37 witness: with a maximum configured, white has moved after time has
\* passed since the match: the start time recorded for white at match time
\* is still there, black is to move and its start time is the present.
C37_Witness ==
    \E g \in GameIds : \E w, b \in PlayersOf(g) :
        /\ SERVER_SEARCH_TIME # NoLimit
        /\ games[g].exists /\ ~games[g].over /\ games[g].turn = "black"
        /\ get_player_color(games[g], w) = "white"
        /\ get_player_color(games[g], b) = "black"
        /\ move_start_times[g][w] = 0
        /\ move_start_times[g][b] = now
        /\ now > 0

(***************************************************************************)
(* Properties of the lock and the maps of the ConnectionManager.           *)
(***************************************************************************)
\* a send_to_game has taken its snapshot and has deliveries to make
Delivering == cm_call.kind = "broadcast" /\ cm_call.pending # {}

\* the connection the loop of send_to_game sends to next
NextRecipient ==
    CHOOSE x \in cm_call.pending : \A y \in cm_call.pending : x <= y

\* C38  Sends happen outside the registry lock: send_to_game takes its
\* snapshot under the lock and has released it before any delivery; a
\* failed delivery inside a broadcast unregisters the connection, and the
\* broadcast always terminates; while a delivery is outstanding, a connect
\* and a disconnect of another coroutine are not blocked.
C38_SendsOutsideLock ==
    /\ [](Delivering => ~lock)
    /\ [](Delivering =>
             \A c \in SessConns :
                 /\ NextConn(c) => ENABLED CmConnect(c)
                 /\ c \in active_connections => ENABLED CmDisconnect(c))
    /\ [][(SendToGameNext /\ NextRecipient \in active_connections
               /\ ~peer_alive[NextRecipient]) =>
              /\ NextRecipient \notin active_connections'
              /\ connection_metadata'[NextRecipient] = NoMeta
              /\ cm_call'.pending = cm_call.pending \ {NextRecipient}]_vars
    /\ Delivering ~> (cm_call.kind = "broadcast" /\ cm_call.pending = {})

\* C38 witness: the last delivery of a broadcast to two connections has
\* just failed: the connection is unregistered, the broadcast has ended and
\* the lock is free.
C38_Witness ==
    \E c \in cm_call.attempted :
        /\ cm_call.kind = "broadcast" /\ cm_call.pending = {}
        /\ Cardinality(cm_call.snapshot) = 2
        /\ [to |-> c, type |-> "message", ok |-> FALSE] \in sent
        /\ c \notin active_connections
        /\ ~lock

(***************************************************************************)
(* Properties of the board of a match.                                     *)
(***************************************************************************)
\* C39  One board per match: once a handler of the match has created the
\* board of the game id, no later step replaces, resets or removes it: the
\* board stays, with the same participant-to-role mapping, and its position
\* changes only by a make_move, so a move applied between the two handlers
\* is not lost.
C39_OneBoardPerMatch ==
    [][\A g \in GameIds :
          games[g].exists =>
              /\ games'[g].exists
              /\ games'[g].player_mappings = games[g].player_mappings
              /\ games'[g] # games[g] => received'.type = "make_move"]_vars

\* the connections that have metadata
WithMetadata == {c \in DOMAIN connection_metadata : connection_metadata[c].present}

\* C40  Registry maps stay aligned: after any sequence of connect,
\* disconnect, send_message (failed sends included), send_to_game and
\* set_game_info, the live connections are the connections that have
\* metadata; a disconnect of an unknown id and a set_game_info on an
\* unregistered id create no entry; an unregistered connection is never a
\* broadcast recipient, is sent nothing and is not listed by
\* get_game_connections.
C40_RegistryMapsAligned ==
    /\ [](active_connections = WithMetadata)
    /\ [](\A g \in GameIds, x \in {0} \cup SessConns :
             /\ connections_to_notify(connection_metadata, g, x)
                    \subseteq active_connections
             /\ get_game_connections(connection_metadata, g)
                    \subseteq active_connections)
    /\ [][\A c \in SessConns \ active_connections :
             /\ CmDisconnect(c) =>
                    UNCHANGED <<active_connections, connection_metadata>>
             /\ \A g \in GameIds :
                    CmSetGameInfo(c, g, g + 1) =>
                        UNCHANGED <<active_connections, connection_metadata>>]_vars
    /\ [][/\ cm_call'.pending \subseteq cm_call.pending \cup active_connections
          /\ \A m \in sent' : m.to \in active_connections]_vars

\* C40 witness: a connection that was registered and bound to a game has
\* been unregistered, a send_message to it has returned False without
\* sending, and another connection of the same game is still registered.
C40_Witness ==
    \E c \in SessConns, o \in active_connections :
        /\ handler[c].pc = "recv"
        /\ c \notin active_connections
        /\ ~connection_metadata[c].present
        /\ cm_call.kind = "send" /\ cm_call.to = c /\ ~cm_call.returned
        /\ sent = {}
        /\ connection_metadata[o].game_id # 0
        /\ get_game_connections(connection_metadata,
                                connection_metadata[o].game_id) = {o}

====
